---- MODULE Spec2Model ----
(***************************************************************************)
(* Model of the markdown dialect conversion engine: the line-oriented      *)
(* block parser (pipeline/tools/parser.py, class Parser), the Mintlify     *)
(* printer (class MintPrinter) and the conditional-block resolver          *)
(* (pipeline/preprocessors/markdown_preprocessor.py), and the line lexer    *)
(* (pipeline/tools/lexer.py).                                              *)
(*                                                                         *)
(* A line is a TLA+ string; a text is a string in which "\n" separates     *)
(* lines.  The white space characters of the modelled texts are the space, *)
(* the tab and the newline: Python's str.strip() and the regex class \s    *)
(* are modelled over these three characters.                               *)
(***************************************************************************)
EXTENDS Integers, Sequences, FiniteSets, TLC

\* ------------------------------------------------------------------------
\* Characters and strings
\* ------------------------------------------------------------------------

\* Characters i..j of s, the empty string when the range is empty, and the
\* character at position i ("" beyond the end of s).
Sub(s, i, j) == IF i > j \/ i > Len(s) THEN "" ELSE SubSeq(s, i, j)

Ch(s, i) == IF i \in 1..Len(s) THEN SubSeq(s, i, i) ELSE ""

From(s, i) == Sub(s, i, Len(s))

UpperChars == "ABCDEFGHIJKLMNOPQRSTUVWXYZ"

LowerChars == "abcdefghijklmnopqrstuvwxyz"

DigitChars == "0123456789"

CharsOf(s) == {Ch(s, i) : i \in 1..Len(s)}

AlphaSet == CharsOf(UpperChars) \cup CharsOf(LowerChars)

DigitSet == CharsOf(DigitChars)

WordSet == AlphaSet \cup DigitSet \cup {"_"}

TagNameSet == AlphaSet \cup DigitSet \cup {"-"}

IsSpace(c) == c \in {" ", "\t", "\n"}

LowerCh(c) ==
  IF c \in CharsOf(UpperChars)
    THEN Ch(LowerChars, CHOOSE i \in 1..26 : Ch(UpperChars, i) = c)
    ELSE c

RECURSIVE lower(_)
lower(s) == IF s = "" THEN "" ELSE LowerCh(Ch(s, 1)) \o lower(From(s, 2))

startswith(s, p) == Len(s) >= Len(p) /\ SubSeq(s, 1, Len(p)) = p

\* Number of characters of s, from position i on, that belong to the set cs
\* before the first character outside it (a greedy character-class run).
RECURSIVE Run(_, _, _)
Run(s, i, cs) ==
  IF i <= Len(s) /\ Ch(s, i) \in cs THEN 1 + Run(s, i + 1, cs) ELSE 0

SpaceSet == {" ", "\t", "\n"}

lstrip(s) == From(s, Run(s, 1, SpaceSet) + 1)

RECURSIVE rstrip(_)
rstrip(s) ==
  IF s # "" /\ IsSpace(Ch(s, Len(s))) THEN rstrip(Sub(s, 1, Len(s) - 1)) ELSE s

strip(s) == rstrip(lstrip(s))

RECURSIVE StripQuotesLeft(_)
StripQuotesLeft(s) ==
  IF s # "" /\ Ch(s, 1) = "\"" THEN StripQuotesLeft(From(s, 2)) ELSE s

RECURSIVE StripQuotesRight(_)
StripQuotesRight(s) ==
  IF s # "" /\ Ch(s, Len(s)) = "\""
    THEN StripQuotesRight(Sub(s, 1, Len(s) - 1)) ELSE s

\* title.strip('"')
StripQuotes(s) == StripQuotesRight(StripQuotesLeft(s))

\* Position of the first occurrence of character c in s at or after i, or 0.
RECURSIVE Find(_, _, _)
Find(s, c, i) ==
  IF i > Len(s) THEN 0 ELSE IF Ch(s, i) = c THEN i ELSE Find(s, c, i + 1)

\* str.split(None, maxsplit): white-space separated words, the last part
\* being the unsplit remainder once maxsplit splits have been made.
RECURSIVE split(_, _)
split(s, maxsplit) ==
  LET t == lstrip(s)
      w == Run(t, 1, {Ch(t, i) : i \in 1..Len(t)} \ SpaceSet)
  IN  IF t = "" THEN <<>>
      ELSE IF maxsplit = 0 THEN <<t>>
      ELSE <<Sub(t, 1, w)>> \o split(From(t, w + 1), maxsplit - 1)

\* "\n".join(lines)
RECURSIVE join(_)
join(ls) ==
  IF ls = <<>> THEN ""
  ELSE IF Len(ls) = 1 THEN ls[1]
  ELSE ls[1] \o "\n" \o join(Tail(ls))

\* " ".join(lines)
RECURSIVE joinSpace(_)
joinSpace(ls) ==
  IF ls = <<>> THEN ""
  ELSE IF Len(ls) = 1 THEN ls[1]
  ELSE ls[1] \o " " \o joinSpace(Tail(ls))

\* str.splitlines(): "\n" ends a line, and a final line without "\n" counts.
RECURSIVE splitlines(_)
splitlines(t) ==
  LET n == Find(t, "\n", 1)
  IN  IF t = "" THEN <<>>
      ELSE IF n = 0 THEN <<t>>
      ELSE <<Sub(t, 1, n - 1)>> \o splitlines(From(t, n + 1))

\* str.split("\n"): always at least one part.
RECURSIVE splitNewline(_)
splitNewline(t) ==
  LET n == Find(t, "\n", 1)
  IN  IF n = 0 THEN <<t>>
      ELSE <<Sub(t, 1, n - 1)>> \o splitNewline(From(t, n + 1))


\* The backquote cannot be written in a string literal of this language: the
\* model writes the fence character as "~", which no modelled line uses for
\* anything else.
FENCE == "~~~"

\* ------------------------------------------------------------------------
\* Regular expressions of parser.py, each as the predicate or the capture
\* that re.match computes on one line
\* ------------------------------------------------------------------------

HashRun(line) == Run(line, 1, {"#"})

\* HEADING_PREFIX_RE  ^ #{1,6} \s+
HEADING_PREFIX_RE(line) ==
  LET h == HashRun(line)
  IN  h \in 1..6 /\ Len(line) > h /\ IsSpace(Ch(line, h + 1))

\* HEADING_LINE_RE  ^ (#{1,6}) \s+ (.*) $ : the same test, with the captures
HEADING_LINE_RE(line) == HEADING_PREFIX_RE(line)

HeadingText(line) == lstrip(From(line, HashRun(line) + 1))

\* TAB_HEADER_RE  ^ === \s* "([^"]+)"
TabQuote(line) == 4 + Run(line, 4, SpaceSet)

TAB_HEADER_RE(line) ==
  /\ startswith(line, "===")
  /\ Ch(line, TabQuote(line)) = "\""
  /\ Find(line, "\"", TabQuote(line) + 1) > TabQuote(line) + 1

TabTitle(line) ==
  Sub(line, TabQuote(line) + 1, Find(line, "\"", TabQuote(line) + 1) - 1)

\* UNORDERED_MARKER_RE  ^ (\s*) ([-+*]) \s+
UNORDERED_MARKER_RE(line) ==
  LET n == Run(line, 1, SpaceSet)
  IN  Ch(line, n + 1) \in {"-", "+", "*"} /\ IsSpace(Ch(line, n + 2))

\* ORDERED_MARKER_RE  ^ (\s*) (\d+) ([.)]) \s+
ORDERED_MARKER_RE(line) ==
  LET n == Run(line, 1, SpaceSet)
      d == Run(line, n + 1, DigitSet)
  IN  d > 0 /\ Ch(line, n + d + 1) \in {".", ")"} /\ IsSpace(Ch(line, n + d + 2))

\* The two list marker patterns, selected by the kind of list being read.
MarkerMatch(kind, line) ==
  IF kind = "UnorderedList" THEN UNORDERED_MARKER_RE(line)
  ELSE ORDERED_MARKER_RE(line)

\* len(match.group("indent"))
MarkerIndent(line) == Run(line, 1, SpaceSet)

\* Length of the whole marker match: indent, marker and the white space run.
MarkerLen(kind, line) ==
  LET n == Run(line, 1, SpaceSet)
      m == IF kind = "UnorderedList" THEN 1 ELSE Run(line, n + 1, DigitSet) + 1
  IN  n + m + Run(line, n + m + 1, SpaceSet)

VoidTags ==
  {"area", "base", "br", "col", "embed", "hr", "img", "input", "link", "meta",
   "source", "track", "wbr"}

\* HTML_TAG_RE  ^ \s* < (/?) ([a-zA-Z][a-zA-Z0-9-]*) (?:\s[^>]*)? (/?) >
\* The record gives whether the line matches and the three captures.  The
\* attribute group is greedy and may contain "/", so the self-closing group
\* is non-empty only when "/>" directly follows the tag name.
HtmlMatch(line) ==
  LET lt   == Run(line, 1, SpaceSet) + 1
      cl   == IF Ch(line, lt + 1) = "/" THEN 1 ELSE 0
      nm   == lt + 1 + cl
      nlen == IF Ch(line, nm) \in AlphaSet THEN Run(line, nm, TagNameSet) ELSE 0
      aft  == nm + nlen
      c    == Ch(line, aft)
      none == [matched |-> FALSE, closing |-> FALSE, tag |-> "",
               self_closing |-> FALSE]
  IN  IF Ch(line, lt) # "<" \/ nlen = 0 THEN none
      ELSE IF c = ">" \/ (IsSpace(c) /\ Find(line, ">", aft) > 0)
        THEN [matched |-> TRUE, closing |-> cl = 1,
              tag |-> Sub(line, nm, aft - 1), self_closing |-> FALSE]
      ELSE IF c = "/" /\ Ch(line, aft + 1) = ">"
        THEN [matched |-> TRUE, closing |-> cl = 1,
              tag |-> Sub(line, nm, aft - 1), self_closing |-> TRUE]
      ELSE none

HTML_TAG_RE(line) == HtmlMatch(line).matched

\* PARA_BREAK_RE, matched at the start of the line
PARA_BREAK_RE(line) ==
  LET h == HashRun(line)
      d == Run(line, 1, DigitSet)
      n == Run(line, 1, SpaceSet)
  IN  \/ startswith(line, FENCE)
      \/ h \in 1..6 /\ IsSpace(Ch(line, h + 1))
      \/ Ch(line, 1) \in {"-", "+", "*"} /\ IsSpace(Ch(line, 2))
      \/ d > 0 /\ Ch(line, d + 1) \in {".", ")"} /\ IsSpace(Ch(line, d + 2))
      \/ startswith(line, ">")
      \/ startswith(line, "!!!")
      \/ startswith(line, "???")
      \/ startswith(line, ":::")
      \/ Ch(line, n + 1) = "<" /\ Ch(line, n + 2) \in AlphaSet

\* ------------------------------------------------------------------------
\* AST nodes (dataclasses of parser.py) and the results of the block parsers
\* ------------------------------------------------------------------------

\* Python's None where a method returns "Node | None".
NoneNode == [type |-> "None"]

NoErr == [exc |-> "", msg |-> ""]

\* An optional string is a sequence of at most one string: << >> is None.
None == << >>

Some(s) == <<s>>

\* A block parser returns a node and the new value of self.current, raises an
\* exception, or never returns (a recursive parse that makes no progress).
Ok(node, cur) == [status |-> "ok", node |-> node, cur |-> cur, err |-> NoErr]

Raise(exc, msg, cur) ==
  [status |-> "error", node |-> NoneNode, cur |-> cur,
   err |-> [exc |-> exc, msg |-> msg]]

Hang(cur) == [status |-> "hang", node |-> NoneNode, cur |-> cur, err |-> NoErr]

\* Parser.eof / Parser.peek, with self.current passed as cur (0-based)
eof(lines, cur) == cur >= Len(lines)

peek(lines, cur) == IF eof(lines, cur) THEN "" ELSE lines[cur + 1]

\* First position at or after cur whose line is not white space only.
RECURSIVE SkipBlank(_, _)
SkipBlank(lines, cur) ==
  IF ~eof(lines, cur) /\ strip(peek(lines, cur)) = ""
    THEN SkipBlank(lines, cur + 1) ELSE cur

\* "Remove trailing empty lines"
RECURSIVE PopBlank(_)
PopBlank(ls) ==
  IF ls # <<>> /\ strip(ls[Len(ls)]) = ""
    THEN PopBlank(SubSeq(ls, 1, Len(ls) - 1)) ELSE ls

\* ------------------------------------------------------------------------
\* Block parsers that do not recurse
\* ------------------------------------------------------------------------

\* Position (0-based) of the first line at or after cur that closes a fence,
\* or the number of lines when there is none.
RECURSIVE FenceClose(_, _)
FenceClose(lines, cur) ==
  IF eof(lines, cur) THEN Len(lines)
  ELSE IF startswith(strip(lines[cur + 1]), FENCE) THEN cur
  ELSE FenceClose(lines, cur + 1)

parse_code_block(lines, cur) ==
  LET fence_line == strip(peek(lines, cur))
      fence_body == strip(From(fence_line, 4))
      parts      == split(fence_body, 1)
      close      == FenceClose(lines, cur + 1)
      newcur     == IF close < Len(lines) THEN close + 1 ELSE Len(lines)
  IN  Ok([type |-> "CodeBlock",
          language |-> IF fence_body # "" THEN Some(parts[1]) ELSE None,
          meta |-> IF fence_body # "" /\ Len(parts) > 1 THEN parts[2] ELSE "",
          content |-> join(SubSeq(lines, cur + 2, close)),
          start_line |-> cur + 1, limit_line |-> newcur + 1], newcur)

\* parse_heading with the heading's range left empty
parse_headingEmptyRange(lines, cur) ==
  LET line == strip(peek(lines, cur))
  IN  Ok([type |-> "Heading",
          level |-> IF HEADING_LINE_RE(line) THEN HashRun(line) ELSE 1,
          value |-> IF HEADING_LINE_RE(line) THEN HeadingText(line) ELSE line,
          start_line |-> cur + 1, limit_line |-> cur + 1], cur + 1)

parse_heading(lines, cur) ==
  LET line == strip(peek(lines, cur))
  IN  IF ~HEADING_LINE_RE(line)
        THEN Ok([type |-> "Heading", level |-> 1, value |-> line,
                 start_line |-> cur + 1, limit_line |-> cur + 2], cur + 1)
        ELSE Ok([type |-> "Heading", level |-> HashRun(line),
                 value |-> HeadingText(line),
                 start_line |-> cur + 1, limit_line |-> cur + 2], cur + 1)

\* Number of consecutive lines from cur on that, left-stripped, start with ">".
RECURSIVE QuoteRun(_, _)
QuoteRun(lines, cur) ==
  IF ~eof(lines, cur) /\ startswith(lstrip(peek(lines, cur)), ">")
    THEN 1 + QuoteRun(lines, cur + 1) ELSE 0

parse_quote_block(lines, cur) ==
  LET n == QuoteRun(lines, cur)
  IN  Ok([type |-> "QuoteBlock",
          lines |-> [i \in 1..n |-> lstrip(From(lstrip(lines[cur + i]), 2))],
          start_line |-> cur + 1, limit_line |-> cur + n + 1], cur + n)

\* The tag stack of parse_html_block after the tags of one line.
HtmlStackAfter(stack, line) ==
  LET m    == HtmlMatch(line)
      name == lower(m.tag)
  IN  IF ~m.matched THEN stack
      ELSE IF m.self_closing \/ name \in VoidTags THEN stack
      ELSE IF m.closing
        THEN IF stack # <<>> /\ stack[Len(stack)] = name
               THEN SubSeq(stack, 1, Len(stack) - 1) ELSE stack
      ELSE Append(stack, name)

\* New position after the loop of parse_html_block entered at cur with stack.
RECURSIVE HtmlEnd(_, _, _)
HtmlEnd(lines, cur, stack) ==
  IF eof(lines, cur) THEN cur
  ELSE LET st == HtmlStackAfter(stack, lines[cur + 1])
       IN  IF st = <<>> THEN cur + 1 ELSE HtmlEnd(lines, cur + 1, st)

parse_html_block(lines, cur) ==
  LET newcur == HtmlEnd(lines, cur, <<>>)
  IN  Ok([type |-> "HTMLBlock", content |-> join(SubSeq(lines, cur + 1, newcur)),
          start_line |-> cur + 1, limit_line |-> newcur + 1], newcur)

\* Number of lines parse_paragraph takes from cur on.
RECURSIVE ParaRun(_, _)
ParaRun(lines, cur) ==
  IF eof(lines, cur) THEN 0
  ELSE IF strip(peek(lines, cur)) = "" \/ PARA_BREAK_RE(peek(lines, cur)) THEN 0
  ELSE 1 + ParaRun(lines, cur + 1)

parse_paragraph(lines, cur) ==
  LET n == ParaRun(lines, cur)
  IN  Ok([type |-> "Paragraph", value |-> [i \in 1..n |-> strip(lines[cur + i])],
          start_line |-> cur + 1, limit_line |-> cur + n + 1], cur + n)

\* Position after the front matter that opens at cur: the closing "---" is
\* consumed when there is one.
RECURSIVE FrontClose(_, _)
FrontClose(lines, cur) ==
  IF eof(lines, cur) THEN Len(lines)
  ELSE IF strip(lines[cur + 1]) = "---" THEN cur
  ELSE FrontClose(lines, cur + 1)

parse_front_matter(lines, cur) ==
  LET close  == FrontClose(lines, cur + 1)
      newcur == IF close < Len(lines) THEN close + 1 ELSE Len(lines)
  IN  IF strip(peek(lines, cur)) # "---" THEN Ok(NoneNode, cur)
      ELSE Ok([type |-> "FrontMatter",
               content |-> join(SubSeq(lines, cur + 2, close)),
               start_line |-> cur + 1, limit_line |-> newcur + 1], newcur)

\* ------------------------------------------------------------------------
\* Block parsers that parse a dedented body with a new Parser
\* ------------------------------------------------------------------------

\* Parser(text).parse() as a function of the text: status, blocks, and the
\* Document node when the parse returns.
RECURSIVE ParseText(_)

RECURSIVE parse_block(_, _)

\* Propagate with the exception of the inner parse caught and dropped
PropagateSwallowed(r, cur) == Ok(NoneNode, cur)

\* The result of a block parser whose recursive parse r did not return a
\* Document: the exception goes up, a parse that does not end does not return.
Propagate(r, cur) ==
  [status |-> r.status, node |-> NoneNode, cur |-> cur, err |-> r.err]

AllowedKinds == {"note", "warning", "info", "tip", "example"}

IsIndented(line) == startswith(line, "    ") \/ startswith(line, "\t")

\* "Remove the base indentation"
Dedent(line) ==
  IF startswith(line, "    ") THEN From(line, 5)
  ELSE IF startswith(line, "\t") THEN From(line, 2)
  ELSE lstrip(line)

\* ls with one more line in front
Cons(line, r) == [ls |-> <<line>> \o r.ls, cur |-> r.cur]

\* The body collection loop of parse_admonition, from cur on: the collected
\* lines and the position where the loop stops.
RECURSIVE AdmonitionBody(_, _)
AdmonitionBody(lines, cur) ==
  IF eof(lines, cur) THEN [ls |-> <<>>, cur |-> cur]
  ELSE IF strip(lines[cur + 1]) = ""
    THEN Cons(lines[cur + 1], AdmonitionBody(lines, cur + 1))
  ELSE IF ~IsIndented(lines[cur + 1]) THEN [ls |-> <<>>, cur |-> cur]
  ELSE Cons(Dedent(lines[cur + 1]), AdmonitionBody(lines, cur + 1))

\* parse_admonition once the body has been parsed: inner is what
\* Parser(body).parse() did.
AdmonitionNode(cur, tag, kind, title, newcur, inner) ==
  IF inner.status # "ok" THEN Propagate(inner, newcur)
  ELSE Ok([type |-> "Admonition", tag |-> tag, kind |-> kind, title |-> title,
           blocks |-> inner.blocks, start_line |-> cur + 1,
           limit_line |-> newcur + 1], newcur)

\* parse_admonition from "skip blank lines" on; body is what the collection
\* loop gathered.
AdmonitionParsed(cur, tag, kind, title, body) ==
  AdmonitionNode(cur, tag, kind, title, body.cur,
                 ParseText(join(PopBlank(body.ls))))

\* parse_admonition once the header is split and the kind lower-cased
AdmonitionChecked(lines, cur, parts, kind) ==
  IF Len(parts) # 2 /\ Len(parts) # 3
    THEN Raise("NotImplementedError", "Invalid admonition header format", cur + 1)
  ELSE IF parts[1] \notin {"!!!", "???"}
    THEN Raise("NotImplementedError", "Invalid admonition type: " \o parts[1],
               cur + 1)
  ELSE IF kind \notin AllowedKinds
    THEN Raise("NotImplementedError", "Unsupported admonition type: " \o kind,
               cur + 1)
  ELSE AdmonitionParsed(cur, parts[1], kind,
                        IF Len(parts) = 3 THEN StripQuotes(parts[3]) ELSE "",
                        AdmonitionBody(lines, SkipBlank(lines, cur + 1)))

AdmonitionSplit(lines, cur, parts) ==
  AdmonitionChecked(lines, cur, parts,
                    IF Len(parts) >= 2 THEN lower(parts[2]) ELSE "")

parse_admonition(lines, cur) ==
  AdmonitionSplit(lines, cur, split(strip(peek(lines, cur)), 2))

\* The content collection loop of one tab: as for an admonition, but a tab
\* header line ends it before the blank-line test.
RECURSIVE TabBody(_, _)
TabBody(lines, cur) ==
  IF eof(lines, cur) THEN [ls |-> <<>>, cur |-> cur]
  ELSE IF TAB_HEADER_RE(lines[cur + 1]) THEN [ls |-> <<>>, cur |-> cur]
  ELSE IF strip(lines[cur + 1]) = ""
    THEN Cons(lines[cur + 1], TabBody(lines, cur + 1))
  ELSE IF ~IsIndented(lines[cur + 1]) THEN [ls |-> <<>>, cur |-> cur]
  ELSE Cons(Dedent(lines[cur + 1]), TabBody(lines, cur + 1))

RECURSIVE TabLoop(_, _, _)

\* TabParsed with the loop left after the first tab
TabParsedOnce(lines, cur, tabs, newcur, inner) ==
  [status |-> inner.status,
   tabs |-> IF inner.status = "ok"
              THEN Append(tabs, [type |-> "Tab", title |-> TabTitle(lines[cur + 1]),
                                 blocks |-> inner.blocks, start_line |-> cur + 1,
                                 limit_line |-> newcur + 1])
              ELSE tabs,
   cur |-> newcur, err |-> inner.err]

\* One tab whose header is at cur, once its content has been parsed
TabParsed(lines, cur, tabs, newcur, inner) ==
  IF inner.status # "ok"
    THEN [status |-> inner.status, tabs |-> tabs, cur |-> newcur, err |-> inner.err]
  ELSE TabLoop(lines, newcur,
         Append(tabs, [type |-> "Tab", title |-> TabTitle(lines[cur + 1]),
                       blocks |-> inner.blocks, start_line |-> cur + 1,
                       limit_line |-> newcur + 1]))

TabCollected(lines, cur, tabs, body) ==
  TabParsed(lines, cur, tabs, body.cur, ParseText(join(PopBlank(body.ls))))

\* The while loop of parse_tab_block from cur on, tabs being those read so far.
TabLoop(lines, cur, tabs) ==
  IF eof(lines, cur) \/ ~TAB_HEADER_RE(peek(lines, cur))
    THEN [status |-> "ok", tabs |-> tabs, cur |-> cur, err |-> NoErr]
  ELSE TabCollected(lines, cur, tabs, TabBody(lines, SkipBlank(lines, cur + 1)))

TabBlockNode(cur, r) ==
  IF r.status # "ok" THEN Propagate(r, r.cur)
  ELSE Ok([type |-> "TabBlock", tabs |-> r.tabs, start_line |-> cur + 1,
           limit_line |-> r.cur + 1], r.cur)

parse_tab_block(lines, cur) == TabBlockNode(cur, TabLoop(lines, cur, <<>>))

\* "if new_marker_indent == marker_indent: break": the line is a marker of
\* the list being read, at the indentation of the current item
SameLevelMarker(kind, line, marker_indent) ==
  MarkerMatch(kind, line) /\ MarkerIndent(line) = marker_indent

\* The inner loop of _parse_list_item that gathers the indented lines of one
\* item: blank lines are kept as they are, a marker of the item's own list at
\* the item's indentation or a line indented less than min_required ends it.
RECURSIVE ItemBody(_, _, _, _)
ItemBody(lines, cur, kind, marker_indent) ==
  IF eof(lines, cur) THEN [ls |-> <<>>, cur |-> cur]
  ELSE IF strip(lines[cur + 1]) = ""
    THEN Cons(lines[cur + 1], ItemBody(lines, cur + 1, kind, marker_indent))
  ELSE IF SameLevelMarker(kind, lines[cur + 1], marker_indent)
    THEN [ls |-> <<>>, cur |-> cur]
  ELSE IF Run(lines[cur + 1], 1, SpaceSet) >= marker_indent + 4
    THEN Cons(From(lines[cur + 1], marker_indent + 4 + 1),
              ItemBody(lines, cur + 1, kind, marker_indent))
  ELSE [ls |-> <<>>, cur |-> cur]

\* The ListItem with the blocks of its first line (head) and, when a body
\* was parsed, the blocks of inner
ItemNode(cur, head, newcur, inner) ==
  IF inner.status # "ok" THEN Propagate(inner, newcur)
  ELSE Ok([type |-> "ListItem", blocks |-> head \o inner.blocks,
           start_line |-> cur + 1, limit_line |-> newcur + 1], newcur)

EmptyParse == [status |-> "ok", blocks |-> <<>>, err |-> NoErr]

\* "Parse the indented content as a sub-document", sub being the collected
\* lines without the trailing blank ones
ItemCollected(cur, head, newcur, sub) ==
  ItemNode(cur, head, newcur, IF sub = <<>> THEN EmptyParse ELSE ParseText(join(sub)))

ItemWithBody(cur, head, body) ==
  ItemCollected(cur, head, body.cur, PopBlank(body.ls))

\* _parse_list_item after the marker line: next is the first line that is
\* not blank.  Only a line indented by marker_indent + 4 opens a body.
ItemAfterMarker(lines, cur, kind, marker_indent, head, next) ==
  IF /\ ~eof(lines, next)
     /\ ~SameLevelMarker(kind, peek(lines, next), marker_indent)
     /\ Run(peek(lines, next), 1, SpaceSet) >= marker_indent + 4
    THEN ItemWithBody(cur, head, ItemBody(lines, next, kind, marker_indent))
  ELSE ItemNode(cur, head, next, EmptyParse)

\* The blocks that the text after the marker gives: one Paragraph, or none
ItemHead(cur, text) ==
  IF strip(text) # ""
    THEN <<[type |-> "Paragraph", value |-> <<text>>, start_line |-> cur + 1,
            limit_line |-> cur + 2]>>
  ELSE <<>>

_parse_list_item(lines, cur, kind) ==
  ItemAfterMarker(lines, cur, kind, MarkerIndent(peek(lines, cur)),
    ItemHead(cur, rstrip(From(peek(lines, cur),
                              MarkerLen(kind, peek(lines, cur)) + 1))),
    SkipBlank(lines, cur + 1))

RECURSIVE _collect_list_items(_, _, _, _)

ItemsAfter(lines, kind, items, r) ==
  IF r.status # "ok"
    THEN [status |-> r.status, items |-> items, cur |-> r.cur, err |-> r.err]
  ELSE _collect_list_items(lines, r.cur, kind, Append(items, r.node))

_collect_list_items(lines, cur, kind, items) ==
  IF eof(lines, cur) \/ ~MarkerMatch(kind, peek(lines, cur))
    THEN [status |-> "ok", items |-> items, cur |-> cur, err |-> NoErr]
  ELSE ItemsAfter(lines, kind, items, _parse_list_item(lines, cur, kind))

ListNode(cur, kind, r) ==
  IF r.status # "ok" THEN Propagate(r, r.cur)
  ELSE Ok([type |-> kind, items |-> r.items, start_line |-> cur + 1,
           limit_line |-> r.cur + 1], r.cur)

\* parse_unordered_list / parse_ordered_list
parse_list(lines, cur, kind) ==
  ListNode(cur, kind, _collect_list_items(lines, cur, kind, <<>>))

parse_unordered_list(lines, cur) == parse_list(lines, cur, "UnorderedList")

parse_ordered_list(lines, cur) == parse_list(lines, cur, "OrderedList")

\* ------------------------------------------------------------------------
\* The dispatcher and the parse loop
\* ------------------------------------------------------------------------

\* The branch parse_block takes on a line, in the order of its tests.
Dispatch(line) ==
  IF line = "" THEN "empty"
  ELSE IF startswith(line, FENCE) THEN "code"
  ELSE IF HEADING_PREFIX_RE(line) THEN "heading"
  ELSE IF UNORDERED_MARKER_RE(line) THEN "ul"
  ELSE IF ORDERED_MARKER_RE(line) THEN "ol"
  ELSE IF startswith(line, ">") THEN "quote"
  ELSE IF startswith(line, "!!!") \/ startswith(line, "???") THEN "admonition"
  ELSE IF startswith(line, "===") THEN "tab"
  ELSE IF HTML_TAG_RE(line) THEN "html"
  ELSE "paragraph"

BlockFor(d, lines, cur) ==
  CASE d = "empty"      -> Ok(NoneNode, cur + 1)
    [] d = "code"       -> parse_code_block(lines, cur)
    [] d = "heading"    -> parse_heading(lines, cur)
    [] d = "ul"         -> parse_unordered_list(lines, cur)
    [] d = "ol"         -> parse_ordered_list(lines, cur)
    [] d = "quote"      -> parse_quote_block(lines, cur)
    [] d = "admonition" -> parse_admonition(lines, cur)
    [] d = "tab"        -> parse_tab_block(lines, cur)
    [] d = "html"       -> parse_html_block(lines, cur)
    [] OTHER            -> parse_paragraph(lines, cur)

parse_block(lines, cur) == BlockFor(Dispatch(peek(lines, cur)), lines, cur)

RECURSIVE ParseLoop(_, _, _)

\* The parse loop after the call r of parse_block made at cur.  parse_block
\* is a function of (lines, cur), so a call that returns without moving the
\* cursor is repeated for ever: the loop never ends.
LoopAfter(lines, cur, blocks, r) ==
  IF r.status # "ok"
    THEN [status |-> r.status, blocks |-> blocks, cur |-> r.cur, err |-> r.err]
  ELSE IF r.cur = cur
    THEN [status |-> "hang", blocks |-> blocks, cur |-> cur, err |-> NoErr]
  ELSE ParseLoop(lines, r.cur,
         IF r.node = NoneNode THEN blocks ELSE Append(blocks, r.node))

\* The "while not self.eof()" loop of Parser.parse from cur on
ParseLoop(lines, cur, blocks) ==
  IF eof(lines, cur)
    THEN [status |-> "ok", blocks |-> blocks, cur |-> cur, err |-> NoErr]
  ELSE LoopAfter(lines, cur, blocks, parse_block(lines, cur))

\* What Parser.parse returns or raises, r being the end of its loop
ParseResult(lines, r) ==
  [status |-> r.status, blocks |-> r.blocks, err |-> r.err,
   doc |-> [type |-> "Document", blocks |-> r.blocks, start_line |-> 1,
            limit_line |-> Len(lines) + 1]]

ParseAfterFront(lines, front) ==
  ParseResult(lines, ParseLoop(lines, front.cur,
                IF front.node = NoneNode THEN <<>> ELSE <<front.node>>))

\* Parser.parse on the lines that Parser.__init__ stored
Parse(lines) ==
  ParseAfterFront(lines,
    IF ~eof(lines, 0) /\ strip(peek(lines, 0)) = "---"
      THEN parse_front_matter(lines, 0) ELSE Ok(NoneNode, 0))

ParseText(text) == Parse(splitlines(text))

\* ------------------------------------------------------------------------
\* MintPrinter: a visit returns the lines it appends to self.output, or the
\* exception it raises
\* ------------------------------------------------------------------------

RECURSIVE Spaces(_)
Spaces(n) == IF n = 0 THEN "" ELSE " " \o Spaces(n - 1)

RECURSIVE Hashes(_)
Hashes(n) == IF n = 0 THEN "" ELSE "#" \o Hashes(n - 1)

\* str(i) for a natural number
RECURSIVE IntToStr(_)
IntToStr(i) ==
  IF i < 10 THEN Ch(DigitChars, i + 1)
  ELSE IntToStr(i \div 10) \o Ch(DigitChars, (i % 10) + 1)

\* _add_line that indents blank lines like the others
_add_lineBlankIndented(line, lvl) == Spaces(2 * lvl) \o line

\* MintPrinter._add_line at indent level lvl: the line appended to the output
_add_line(line, lvl) == IF strip(line) # "" THEN Spaces(2 * lvl) \o line ELSE ""

\* What a visit has done when it returns or raises: the lines it has
\* appended to self.output and the value it leaves in self.indent_level, with
\* the history of the visit: adds, the calls of _add_line (the level at the
\* call and the argument), and levels, the values assigned to
\* self.indent_level
POk(out, lvl) ==
  [status |-> "ok", out |-> out, err |-> NoErr, lvl |-> lvl,
   adds |-> <<>>, levels |-> <<>>]

PRaise(out, msg, lvl) ==
  [status |-> "error", out |-> out,
   err |-> [exc |-> "NotImplementedError", msg |-> msg], lvl |-> lvl,
   adds |-> <<>>, levels |-> <<>>]

\* A visit entered at indent level lvl, before its first statement
Start(lvl) == POk(<<>>, lvl)

\* the lines out1 followed by r
After(out1, r) == [r EXCEPT !.out = out1 \o r.out]

\* r followed by what v does, v being entered at the level r leaves (nothing
\* follows an exception)
Followed(r, v) ==
  IF r.status = "ok"
    THEN [v EXCEPT !.out = r.out \o v.out, !.adds = r.adds \o v.adds,
                   !.levels = r.levels \o v.levels]
  ELSE r

\* "self._add_line(line)" at indent level lvl
Added(line, lvl) ==
  [POk(<<_add_line(line, lvl)>>, lvl)
     EXCEPT !.adds = <<[level |-> lvl, line |-> line]>>]

\* r followed by "self._add_line(line)"
Line(r, line) == Followed(r, Added(line, r.lvl))

\* "self.indent_level += d" at indent level lvl
Shifted(lvl, d) == [POk(<<>>, lvl + d) EXCEPT !.levels = <<lvl + d>>]

\* r followed by "self.indent_level += d"
Indent(r, d) == Followed(r, Shifted(r.lvl, d))

\* r followed by "self._add_line(l)" for each l of ls from number i on
RECURSIVE Lines(_, _, _)
Lines(r, ls, i) ==
  IF i > Len(ls) THEN r ELSE Lines(Line(r, ls[i]), ls, i + 1)

RECURSIVE _visit(_, _)

\* r followed by "self._visit(node)"
Visit(r, node) == Followed(r, _visit(node, r.lvl))

\* "for i, block in enumerate(blocks): if i > 0: add_line(''); visit(block)"
\* from block number i on, after r
RECURSIVE VisitBlocks(_, _, _)
VisitBlocks(blocks, i, r) ==
  IF i > Len(blocks) \/ r.status # "ok" THEN r
  ELSE VisitBlocks(blocks, i + 1,
                   Visit(IF i > 1 THEN Line(r, "") ELSE r, blocks[i]))

_visit_document(node, lvl) == VisitBlocks(node.blocks, 1, Start(lvl))

_visit_heading(node, lvl) ==
  Line(Start(lvl), Hashes(node.level) \o " " \o node.value)

RECURSIVE ParagraphLines(_, _, _)
ParagraphLines(value, i, r) ==
  IF i > Len(value) THEN r
  ELSE ParagraphLines(value, i + 1,
                      IF i > 1 THEN Line(Line(r, strip(value[i])), "\n")
                      ELSE Line(r, strip(value[i])))

_visit_paragraph(node, lvl) == ParagraphLines(node.value, 1, Start(lvl))

\* _visit_codeblock with the fence line made of the language alone
_visit_codeblockNoMeta(node, lvl) ==
  Line(Lines(Line(Start(lvl),
                  FENCE \o (IF node.language = None THEN ""
                            ELSE node.language[1])),
             IF node.content # "" THEN splitNewline(node.content) ELSE <<>>, 1),
       FENCE)

_visit_codeblock(node, lvl) ==
  Line(Lines(Line(Start(lvl),
                  IF node.language # None /\ node.language[1] # ""
                    THEN IF node.meta # ""
                           THEN FENCE \o node.language[1] \o " " \o node.meta
                         ELSE FENCE \o node.language[1]
                  ELSE FENCE),
             IF node.content # "" THEN splitNewline(node.content) ELSE <<>>, 1),
       FENCE)

\* _visit_list_item from block number i of the item on, after r
RECURSIVE ItemBlocks(_, _, _, _)
ItemBlocks(blocks, i, prefix, r) ==
  IF i > Len(blocks) \/ r.status # "ok" THEN r
  ELSE ItemBlocks(blocks, i + 1, prefix,
         IF i = 1
           THEN IF blocks[1].type = "Paragraph"
                  THEN Line(r, prefix \o joinSpace(blocks[1].value))
                ELSE Visit(Line(r, prefix), blocks[1])
         ELSE Indent(Visit(Indent(r, 1), blocks[i]), -1))

_visit_list_item(item, prefix, lvl) ==
  ItemBlocks(item.blocks, 1, prefix, Start(lvl))

\* the loop of _visit_unorderedlist / _visit_orderedlist from item i on
RECURSIVE ListItems(_, _, _, _)
ListItems(items, i, ordered, r) ==
  IF i > Len(items) \/ r.status # "ok" THEN r
  ELSE ListItems(items, i + 1, ordered,
         Followed(r, _visit_list_item(items[i],
                                 IF ordered THEN IntToStr(i) \o ". " ELSE "- ",
                                 r.lvl)))

_visit_unorderedlist(node, lvl) == ListItems(node.items, 1, FALSE, Start(lvl))

_visit_orderedlist(node, lvl) == ListItems(node.items, 1, TRUE, Start(lvl))

_visit_quoteblock(node, lvl) ==
  Lines(Start(lvl), [i \in 1..Len(node.lines) |-> "> " \o node.lines[i]], 1)

\* the loop over the tabs of _visit_tabblock from tab i on, after r
RECURSIVE TabElements(_, _, _)
TabElements(tabs, i, r) ==
  IF i > Len(tabs) \/ r.status # "ok" THEN r
  ELSE TabElements(tabs, i + 1,
         Line(Indent(VisitBlocks(tabs[i].blocks, 1,
                       Indent(Line(r, "<Tab title=\"" \o tabs[i].title \o "\">"),
                              1)),
                     -1),
              "</Tab>"))

_visit_tabblock(node, lvl) ==
  Line(Indent(TabElements(node.tabs, 1, Indent(Line(Start(lvl), "<Tabs>"), 1)),
              -1),
       "</Tabs>")

\* kind_to_callout
KindToCallout ==
  [note |-> "Note", warning |-> "Warning", info |-> "Info", tip |-> "Tip",
   danger |-> "Danger"]

\* The body of an element of _visit_admonition: the opening line, the level
\* raised, the title line if there is one, the blocks, the level lowered and
\* the closing line
Element(lvl, open, title, blocks, close) ==
  Line(Indent(VisitBlocks(blocks, 1,
                IF title # ""
                  THEN Line(Indent(Line(Start(lvl), open), 1), title)
                ELSE Indent(Line(Start(lvl), open), 1)),
              -1),
       close)

_visit_admonition(node, lvl) ==
  IF node.tag = "???"
    THEN Element(lvl,
                 IF node.title # ""
                   THEN "<Accordion title=\"" \o node.title \o "\">"
                 ELSE "<Accordion>",
                 "", node.blocks, "</Accordion>")
  ELSE IF node.tag = "!!!"
    THEN IF lower(node.kind) \notin DOMAIN KindToCallout
           THEN PRaise(<<>>, "Unsupported admonition kind: " \o lower(node.kind),
                       lvl)
         ELSE Element(lvl, "<" \o KindToCallout[lower(node.kind)] \o ">",
                      IF node.title # "" THEN "**" \o node.title \o "**" ELSE "",
                      node.blocks,
                      "</" \o KindToCallout[lower(node.kind)] \o ">")
  ELSE PRaise(<<>>, "", lvl)

_visit_frontmatter(node, lvl) == Start(lvl)

_visit_htmlblock(node, lvl) == Lines(Start(lvl), splitNewline(node.content), 1)

\* MintPrinter._visit: dispatch on the lower-cased class name of the node
_visit(node, lvl) ==
  CASE node.type = "Document"      -> _visit_document(node, lvl)
    [] node.type = "Heading"       -> _visit_heading(node, lvl)
    [] node.type = "Paragraph"     -> _visit_paragraph(node, lvl)
    [] node.type = "CodeBlock"     -> _visit_codeblock(node, lvl)
    [] node.type = "UnorderedList" -> _visit_unorderedlist(node, lvl)
    [] node.type = "OrderedList"   -> _visit_orderedlist(node, lvl)
    [] node.type = "QuoteBlock"    -> _visit_quoteblock(node, lvl)
    [] node.type = "TabBlock"      -> _visit_tabblock(node, lvl)
    [] node.type = "Admonition"    -> _visit_admonition(node, lvl)
    [] node.type = "FrontMatter"   -> _visit_frontmatter(node, lvl)
    [] node.type = "HTMLBlock"     -> _visit_htmlblock(node, lvl)
    [] node.type \in {"Tab", "ListItem"} -> PRaise(<<>>, "", lvl)
    [] OTHER -> Line(Start(lvl), "<!-- Unhandled node: " \o node.type \o " -->")

\* MintPrinter.print: the text returned, or the exception
PrintReturn(r) ==
  [status |-> r.status, text |-> IF r.status = "ok" THEN rstrip(join(r.out)) ELSE "",
   err |-> r.err]

\* MintPrinter.__init__
NewPrinter == [output |-> <<>>, indent_level |-> 0]

\* PrintEntry without the second assignment
PrintEntryLevelKept(p) == [output |-> <<>>, indent_level |-> p.indent_level]

\* print: "self.output = []; self.indent_level = 0" on the printer p
PrintEntry(p) == [output |-> <<>>, indent_level |-> 0]

\* print: the printer p once "self._visit(node)" has done r, and the text
\* that print returns then
PrintDone(p, r) ==
  [output |-> p.output \o r.out, indent_level |-> r.lvl,
   result |-> PrintReturn(After(p.output, r))]

PrintVisited(p, node) == PrintDone(p, _visit(node, p.indent_level))

\* printer.print(node) on the printer p: the fields of p afterwards and the
\* result of the call
PrintOn(p, node) == PrintVisited(PrintEntry(p), node)

\* print on a printer just made
MintPrint(node) == PrintOn(NewPrinter, node).result

PrintParsed(p) ==
  IF p.status # "ok" THEN [status |-> p.status, text |-> "", err |-> p.err]
  ELSE MintPrint(p.doc)

\* to_mint(markdown)
to_mint(markdown) == PrintParsed(ParseText(markdown))

\* ------------------------------------------------------------------------
\* The conditional-block resolver: _apply_conditional_rendering of
\* markdown_preprocessor.py.  re.sub tries the pattern at every position from
\* left to right and, at one position, its alternatives in the order of a
\* backtracking matcher; a position is 1-based and a failed match is 0.
\*   (?P<indent>[ \t]*)(?<!\\):::(?P<language>\w+)\s*\n
\*   (?P<content>((?:.*\n)*?))(?P=indent)[ \t]*(?<!\\):::
\* ------------------------------------------------------------------------

\* SupportedLanguages with python alone
SupportedLanguagesPythonOnly == {"python"}

SupportedLanguages == {"python", "js"}

\* [ \t]
BlankSet == {" ", "\t"}

\* The string w stands in t at position p
At(t, p, w) ==
  p >= 1 /\ p + Len(w) - 1 <= Len(t) /\ Sub(t, p, p + Len(w) - 1) = w

NoMatch == [found |-> FALSE, language |-> "", content |-> "", end |-> 0]

\* "(?<!\\):::" at position c, after the closing indentation and blanks: the
\* position after the match
CloserAt(t, c) == IF At(t, c, ":::") /\ Ch(t, c - 1) # "\\" THEN c + 3 ELSE 0

\* "(?P=indent)[ \t]*(?<!\\):::" tried at position e
CloserEnd(t, e, indent) ==
  IF At(t, e, indent)
    THEN CloserAt(t, e + Len(indent) + Run(t, e + Len(indent), BlankSet))
  ELSE 0

\* "((?:.*\n)*?)" from position e on: the lazy repetition takes one whole line
\* more each time the closing pattern does not match where it stands.  The
\* position where the content ends.
RECURSIVE ContentEnd(_, _, _)
ContentEnd(t, e, indent) ==
  IF CloserEnd(t, e, indent) # 0 THEN e
  ELSE IF Find(t, "\n", e) = 0 THEN 0
  ELSE ContentEnd(t, Find(t, "\n", e) + 1, indent)

\* "\s*\n" from position q on, the greedy \s* giving back one character at a
\* time from k characters: the position where the content starts.
RECURSIVE BodyStart(_, _, _, _)
BodyStart(t, q, k, indent) ==
  IF k < 0 THEN 0
  ELSE IF Ch(t, q + k) = "\n" /\ ContentEnd(t, q + k + 1, indent) # 0
    THEN q + k + 1
  ELSE BodyStart(t, q, k - 1, indent)

\* The match object: o is where ":::" opens, q where the language ends, b where
\* the content starts
BlockMatch(t, o, q, indent, b) ==
  IF b = 0 THEN NoMatch
  ELSE [found |-> TRUE, language |-> Sub(t, o + 3, q - 1),
        content |-> Sub(t, b, ContentEnd(t, b, indent) - 1),
        end |-> CloserEnd(t, ContentEnd(t, b, indent), indent)]

BlockBody(t, o, q, indent) ==
  BlockMatch(t, o, q, indent, BodyStart(t, q, Run(t, q, SpaceSet) - 1, indent))

\* OpenerAt without the test of the character before the marker
OpenerAtEscaped(t, p, o) ==
  IF At(t, o, ":::") /\ Run(t, o + 3, WordSet) >= 1
    THEN BlockBody(t, o, o + 3 + Run(t, o + 3, WordSet), Sub(t, p, o - 1))
  ELSE NoMatch

\* The opening part of the pattern, the greedy indentation read from p to o
OpenerAt(t, p, o) ==
  IF At(t, o, ":::") /\ Ch(t, o - 1) # "\\" /\ Run(t, o + 3, WordSet) >= 1
    THEN BlockBody(t, o, o + 3 + Run(t, o + 3, WordSet), Sub(t, p, o - 1))
  ELSE NoMatch

\* pattern.match at position p
MatchAt(t, p) == OpenerAt(t, p, p + Run(t, p, BlankSet))

\* replace_conditional_blocks(match), the match m starting at p
replace_conditional_blocks(t, p, m, target) ==
  IF m.language \notin SupportedLanguages THEN Sub(t, p, m.end - 1)
  ELSE IF m.language = target THEN m.content
  ELSE ""

\* The least position of the set ps, or 0: where a search from the left
\* finds its next match
FirstIn(ps) == IF ps = {} THEN 0 ELSE CHOOSE q \in ps : \A r \in ps : q <= r

RECURSIVE PatternSub(_, _, _)

\* The text before the next match at q is copied, the match is replaced, and
\* the search goes on after it; without a match the rest is copied
SubAfter(t, p, target, q) ==
  IF q # 0
    THEN Sub(t, p, q - 1) \o replace_conditional_blocks(t, q, MatchAt(t, q), target)
         \o PatternSub(t, MatchAt(t, q).end, target)
  ELSE From(t, p)

\* pattern.sub(replace_conditional_blocks, md_text) from position p on
PatternSub(t, p, target) ==
  IF p > Len(t) THEN ""
  ELSE SubAfter(t, p, target, FirstIn({q \in p..Len(t) : MatchAt(t, q).found}))

RECURSIVE Unescape(_)
UnescapeAfter(s, q) ==
  IF q # 0 THEN Sub(s, 1, q - 1) \o ":::" \o Unescape(From(s, q + 4)) ELSE s

\* re.sub(r"\\(:::)", r"\1", result)
Unescape(s) == UnescapeAfter(s, FirstIn({q \in 1..Len(s) : At(s, q, "\\:::")}))

_apply_conditional_rendering(md, target) ==
  IF target \notin SupportedLanguages
    THEN [status |-> "error", text |-> "",
          err |-> [exc |-> "ValueError",
                   msg |-> "target_language must be 'python' or 'js'"]]
  ELSE [status |-> "ok", text |-> Unescape(PatternSub(md, 1, target)),
        err |-> NoErr]

\* ------------------------------------------------------------------------
\* Cross-references: pipeline/preprocessors/link_map.py and preprocess_markdown
\* of pipeline/preprocessors/markdown_preprocessor.py
\* ------------------------------------------------------------------------

\* A dict is a function; d[k] = v
EmptyDict == [k \in {} |-> ""]

Put(d, k, v) == [x \in DOMAIN d \cup {k} |-> IF x = k THEN v ELSE d[x]]

\* The four maps of LINK_MAPS in their order, each with some of its entries in
\* their order: relative and absolute values, names of one scope and of both
LINK_MAPS ==
  << [host |-> "https://langchain-ai.github.io/langgraph/", scope |-> "python",
      links |-> << <<"Pregel", "reference/pregel/">>,
                   <<"Reference", "https://python.langchain.com/api_reference/">>,
                   <<"Topic", "reference/channels/#langgraph.channels.Topic">> >>],
     [host |-> "https://langchain-ai.github.io/langgraphjs/", scope |-> "js",
      links |-> << <<"Auth", "reference/classes/sdk_auth.Auth.html">>,
                   <<"Pregel", "reference/classes/langgraph.Pregel.html">> >>],
     [host |-> "https://python.langchain.com/api_reference/", scope |-> "python",
      links |-> << <<"AIMessage",
                     "core/messages/langchain_core.messages.ai.AIMessage.html">> >>],
     [host |-> "https://v03.api.js.langchain.com/", scope |-> "js",
      links |-> << <<"AIMessage",
                     "classes/_langchain_core.messages_ai_message.AIMessage.html">>,
                   <<"Reference", "index.html">> >>] >>

\* _enumerate_links: the value, after the host unless it starts with "http"
LinkUrl(link_map, value) ==
  IF startswith(value, "http") THEN value ELSE link_map.host \o value

RECURSIVE LinksInto(_, _, _)
LinksInto(result, link_map, j) ==
  IF j > Len(link_map.links) THEN result
  ELSE LinksInto(Put(result, link_map.links[j][1],
                     LinkUrl(link_map, link_map.links[j][2])),
                 link_map, j + 1)

RECURSIVE EnumerateFrom(_, _, _)
EnumerateFrom(scope, i, result) ==
  IF i > Len(LINK_MAPS) THEN result
  ELSE EnumerateFrom(scope, i + 1,
                     IF LINK_MAPS[i].scope = scope
                       THEN LinksInto(result, LINK_MAPS[i], 1)
                       ELSE result)

_enumerate_links(scope) == EnumerateFrom(scope, 1, EmptyDict)

SCOPE_LINK_MAPS == [scope \in {"python", "js"} |-> _enumerate_links(scope)]

\* replace_autolinks of pipeline/preprocessors/handle_auto_links.py, which is
\* not among the sources: written from the description of the cross-reference
\* resolver.  A reference token is "@[", a name without brackets or line
\* breaks, and "]".

\* Position of the "]" that closes the token opened at i, or 0
RefClose(text, i) ==
  IF ~At(text, i, "@[") THEN 0
  ELSE LET n == Run(text, i + 2,
                    {Ch(text, k) : k \in 1..Len(text)} \ {"[", "]", "\n"})
       IN  IF n > 0 /\ Ch(text, i + 2 + n) = "]" THEN i + 2 + n ELSE 0

\* The URL of name in the table of scope, if there is one
Resolve(name, scope) ==
  IF scope \in DOMAIN SCOPE_LINK_MAPS /\ name \in DOMAIN SCOPE_LINK_MAPS[scope]
    THEN Some(SCOPE_LINK_MAPS[scope][name])
    ELSE None

\* The URL for the token at q, if q opens a token and its name resolves
ResolveAt(text, q, scope) ==
  IF RefClose(text, q) = 0 THEN None
  ELSE Resolve(Sub(text, q + 2, RefClose(text, q) - 1), scope)

RECURSIVE AutolinksFrom(_, _, _)

\* The text before the next token that resolves, at q, is copied, the token
\* is replaced, and the scan goes on after it
AutolinkAt(text, i, scope, q) ==
  IF q # 0
    THEN Sub(text, i, q - 1) \o ResolveAt(text, q, scope)[1]
         \o AutolinksFrom(text, RefClose(text, q) + 1, scope)
    ELSE From(text, i)

AutolinksFrom(text, i, scope) ==
  IF i > Len(text) THEN ""
  ELSE AutolinkAt(text, i, scope,
                  FirstIn({q \in i..Len(text) : ResolveAt(text, q, scope) # None}))

replace_autolinks(markdown, file_path, default_scope) ==
  AutolinksFrom(markdown, 1, default_scope)

\* os.environ is a set of pairs of a name and a value
EnvironGet(environ, key, default) ==
  IF \E kv \in environ : kv[1] = key
    THEN (CHOOSE kv \in environ : kv[1] = key)[2]
    ELSE default

\* preprocess_markdown: "if target_language is None: ..."
TargetLanguageOf(target_language, environ) ==
  IF target_language = None
    THEN EnvironGet(environ, "TARGET_LANGUAGE", "python")
    ELSE target_language[1]

\* DefaultScopeOf with "python" for a scope that is not given
DefaultScopePython(default_scope, language) ==
  IF default_scope = None THEN "python" ELSE default_scope[1]

\* preprocess_markdown: "if default_scope is None: default_scope = target_language"
DefaultScopeOf(default_scope, language) ==
  IF default_scope = None THEN language ELSE default_scope[1]

Preprocessed(content, file_path, language, scope) ==
  _apply_conditional_rendering(replace_autolinks(content, file_path, scope),
                               language)

PreprocessWith(content, file_path, language, default_scope) ==
  Preprocessed(content, file_path, language,
               DefaultScopeOf(default_scope, language))

\* target_language and default_scope are optional strings
preprocess_markdown(content, file_path, target_language, default_scope, environ) ==
  PreprocessWith(content, file_path, TargetLanguageOf(target_language, environ),
                 default_scope)

\* ------------------------------------------------------------------------
\* The lexer: lex of pipeline/tools/lexer.py
\* ------------------------------------------------------------------------

TAB_SIZE == 4

\* _indent_width  the loop over the characters of the line, from character i
\* on, width being the width so far
RECURSIVE IndentFrom(_, _, _)
IndentFrom(line, i, width) ==
  IF Ch(line, i) = " " THEN IndentFrom(line, i + 1, width + 1)
  ELSE IF Ch(line, i) = "\t"
    THEN IndentFrom(line, i + 1, width + (TAB_SIZE - (width % TAB_SIZE)))
  ELSE width

_indent_width(line) == IndentFrom(line, 1, 0)

\* The token kinds of _PATTERNS, in the order of the list
_PATTERNS ==
  <<"HEADING", "FENCE", "UL_MARKER", "OL_MARKER", "BLOCKQUOTE", "TAB_HEADER",
    "FRONT_MATTER", "ADMONITION", "CONDITIONAL_BLOCK_OPEN",
    "CONDITIONAL_BLOCK_CLOSE", "HTML_TAG">>

\* pattern.match(trimmed) for the pattern of the kind ttype
PatternMatch(ttype, t) ==
  CASE ttype = "HEADING" ->
         \* (#{1,6})\s+.*
         Run(t, 1, {"#"}) \in 1..6 /\ IsSpace(Ch(t, Run(t, 1, {"#"}) + 1))
    [] ttype = "FENCE" -> startswith(t, FENCE)
    [] ttype = "UL_MARKER" ->
         \* [-+*]\s+
         Ch(t, 1) \in {"-", "+", "*"} /\ IsSpace(Ch(t, 2))
    [] ttype = "OL_MARKER" ->
         \* \d+[.)]\s+
         /\ Run(t, 1, DigitSet) > 0
         /\ Ch(t, Run(t, 1, DigitSet) + 1) \in {".", ")"}
         /\ IsSpace(Ch(t, Run(t, 1, DigitSet) + 2))
    [] ttype = "BLOCKQUOTE" -> startswith(t, ">")
    [] ttype = "TAB_HEADER" ->
         \* ===\s*"[^"]+"
         /\ startswith(t, "===")
         /\ Ch(t, 4 + Run(t, 4, SpaceSet)) = "\""
         /\ Find(t, "\"", 5 + Run(t, 4, SpaceSet)) > 5 + Run(t, 4, SpaceSet)
    [] ttype = "FRONT_MATTER" ->
         \* ^-{3,}\s*$
         /\ Run(t, 1, {"-"}) >= 3
         /\ Run(t, 1, {"-"}) + Run(t, Run(t, 1, {"-"}) + 1, SpaceSet) = Len(t)
    [] ttype = "ADMONITION" ->
         \* (?:!!!|\?\?\?)\s+\w+(?:\s+"[^"]+")?
         /\ startswith(t, "!!!") \/ startswith(t, "???")
         /\ Run(t, 4, SpaceSet) > 0
         /\ Ch(t, 4 + Run(t, 4, SpaceSet)) \in WordSet
    [] ttype = "CONDITIONAL_BLOCK_OPEN" ->
         \* :::(python|js)\s*$
         \E l \in {"python", "js"} :
           /\ startswith(t, ":::" \o l)
           /\ 3 + Len(l) + Run(t, 4 + Len(l), SpaceSet) = Len(t)
    [] ttype = "CONDITIONAL_BLOCK_CLOSE" ->
         \* :::\s*$
         startswith(t, ":::") /\ 3 + Run(t, 4, SpaceSet) = Len(t)
    [] ttype = "HTML_TAG" ->
         \* <[/A-Za-z][^>]*>.*$
         /\ Ch(t, 1) = "<"
         /\ Ch(t, 2) \in AlphaSet \cup {"/"}
         /\ Find(t, ">", 3) > 0

\* "for ttype, pattern in _PATTERNS: if pattern.match(trimmed)": the kinds
\* whose pattern matches
Hits(t) == {i \in 1..Len(_PATTERNS) : PatternMatch(_PATTERNS[i], t)}

Token(type, value, indent, line) ==
  [type |-> type, value |-> value, indent |-> indent, line |-> line]

\* raw[indent:]
Trimmed(raw) == From(raw, _indent_width(raw) + 1)

\* The token that the loop of lex yields for the line raw, the idx-th
TokenAt(raw, idx) ==
  IF Trimmed(raw) = "" THEN Token("BLANK", "", _indent_width(raw), idx)
  ELSE IF Hits(Trimmed(raw)) # {}
    THEN Token(_PATTERNS[CHOOSE i \in Hits(Trimmed(raw)) :
                           \A j \in Hits(Trimmed(raw)) : i <= j],
               Trimmed(raw), _indent_width(raw), idx)
  ELSE Token("TEXT", Trimmed(raw), _indent_width(raw), idx)

\* EofToken on the line of the last token
EofTokenLastLine(n) == Token("EOF", "", 0, n)

\* The synthetic token that ends the stream
EofToken(n) == Token("EOF", "", 0, n + 1)

\* ------------------------------------------------------------------------
\* Input documents
\* ------------------------------------------------------------------------

\* All sequences over the set S of length n, and of length at most n
RECURSIVE SeqsOfLen(_, _)
SeqsOfLen(S, n) ==
  IF n = 0 THEN {<<>>}
  ELSE {Append(q, x) : q \in SeqsOfLen(S, n - 1), x \in S}

SeqsUpTo(S, n) == UNION {SeqsOfLen(S, k) : k \in 0..n}

MaxLines == 2

MaxCode == 2

MaxPara == 3

MaxDepth == 2

MaxSpin == 2

\* Lines that exercise every branch of the dispatcher at column 0, the lines
\* no branch consumes, and indented lines that continue a container.
FlatVocab ==
  {"", "  ", "a", "# h", "~~~", "- a", "1. a", "> q", "<br>", ":::",
   "!!! note", "!!! bogus", "!!!", "=== \"T\"", "=== x", "---",
   "    b", "    !!!"}

FlatDocs == SeqsUpTo(FlatVocab, MaxLines)

\* One admonition header per tag, kind (in two spellings) and title option,
\* alone or followed by a one-line body.
AdmTags == {"!!!", "???"}

AdmKinds == {"note", "warning", "info", "tip", "example", "danger", "Note"}

AdmTitles == {"", " \"T\"", " \"my title\""}

AdmHeaders == {t \o " " \o k \o ti : t \in AdmTags, k \in AdmKinds, ti \in AdmTitles}

AdmDocs == {<<h>> : h \in AdmHeaders} \cup {<<h, "    a">> : h \in AdmHeaders}

\* A fenced code block: opening fence, content lines, closing fence.
CodeVocab == {"x", "  x", "  ", ""}

CodeOpen == {"~~~", "~~~py", "~~~py m"}

CodeDocs ==
  {<<o>> \o c \o <<"~~~">> : o \in CodeOpen, c \in SeqsUpTo(CodeVocab, MaxCode)}

\* Paragraphs, headings and a pipe table row.
ParaVocab == {"a", "| t |", "# h"}

ParaDocs == SeqsUpTo(ParaVocab, MaxPara)

\* The document d as the body of the container that header h opens: every
\* line of d indented by four spaces.
Wrap(h, d) == <<h>> \o [i \in 1..Len(d) |-> "    " \o d[i]]

Containers == {"!!! note", "??? tip \"T\"", "=== \"T\"", "- a", "1. a"}

\* Admonition headers that split into one part only
MalformedHeaders == {"!!!", "??? ", "!!!note"}

NestSeeds ==
  {<<h>> : h \in MalformedHeaders} \cup
  {<<"!!! bogus">>, <<"a">>, <<"~~~", "x", "~~~">>,
   <<"~~~", "  x", "  ", "~~~">>, <<"~~~", "", "~~~">>}

RECURSIVE Nested(_)
Nested(k) ==
  IF k = 0 THEN NestSeeds
  ELSE Nested(k - 1) \cup {Wrap(h, d) : h \in Containers, d \in Nested(k - 1)}

NestDocs == Nested(MaxDepth)

\* Tab headers at column 0, each with its title, its indented body (after a
\* blank line or not, of one or two paragraphs) and the blank lines that
\* separate it from the next tab.
MaxTabs == 2

TabTitles == {"T", "my title"}

TabBodies == {<<"    a">>, <<"", "    a">>, <<"    a", "", "    b">>}

TabGaps == {<<>>, <<"">>}

TabShapes ==
  [title : TabTitles, body : TabBodies, gap : TabGaps]

TabHeaderLine(title) == "=== \"" \o title \o "\""

\* The lines of the tabs ts
RECURSIVE TabDoc(_)
TabDoc(ts) ==
  IF ts = <<>> THEN <<>>
  ELSE <<TabHeaderLine(Head(ts).title)>> \o Head(ts).body \o Head(ts).gap
       \o TabDoc(Tail(ts))

TabCases == SeqsUpTo(TabShapes, MaxTabs) \ {<<>>}

TabDocs == {TabDoc(ts) : ts \in TabCases}

\* Opening fences with their info string taken apart: whitespace, the
\* language, whitespace, the rest, whitespace.
InfoLeads == {"", " "}

InfoLanguages == {"", "py"}

InfoSeps == {" ", "  "}

InfoMetas == {"", "m", "m  k", "{1}", "[expandable]"}

InfoTrails == {"", " "}

InfoCases ==
  {c \in [lead : InfoLeads, language : InfoLanguages, sep : InfoSeps,
          meta : InfoMetas, trail : InfoTrails] :
     /\ c.language = "" => c.meta = ""
     /\ c.meta = "" => c.sep = " "}

InfoLine(c) ==
  FENCE \o c.lead \o c.language
    \o (IF c.meta # "" THEN c.sep \o c.meta ELSE "") \o c.trail

\* A code block of one line or of none under each opening fence
InfoDocs ==
  UNION {{<<InfoLine(c), "x", FENCE>>, <<InfoLine(c), FENCE>>} : c \in InfoCases}

\* Documents that open with a line of dashes, followed by lines among which
\* a second line of dashes may close the front matter
MaxFront == 2

FrontOpeners == {"---", "----", " ---", "--- "}

FrontVocab == {"title: x", "---", "----", "a", ""}

FrontDocs ==
  {<<o>> \o ls : o \in FrontOpeners, ls \in SeqsUpTo(FrontVocab, MaxFront)}

\* Containers whose body is made of blocks of several kinds, at the top of
\* the document or after a paragraph, one inside another up to MaxInside
MaxInside == 2

BodySeeds ==
  {<<"# h">>, <<"a", "", "b">>, <<"# h", "a">>, <<"~~~", "x", "~~~">>,
   <<"> q">>, <<"<br>">>, <<"- x", "- y">>}

RECURSIVE Inside(_)
Inside(k) ==
  IF k = 0 THEN BodySeeds
  ELSE {Wrap(h, d) : h \in Containers, d \in Inside(k - 1)}

Preambles == {<<>>, <<"a", "">>}

RangeDocs ==
  {p \o d : p \in Preambles, d \in UNION {Inside(k) : k \in 1..MaxInside}}

\* An admonition header or a tab header at column 0 and the lines after it:
\* blank, indented by four spaces, a tab, eight spaces, fewer than four
\* spaces, or not at all
MaxBody == 2

BodyHeaders == {"!!! note", "=== \"T\""}

BodyVocab == {"", "    a", "\ta", "        b", "  c", "   - d", "e"}

BodyDocs == {<<h>> \o b : h \in BodyHeaders, b \in SeqsUpTo(BodyVocab, MaxBody)}

\* A line that opens an HTML block (an opening tag, a balanced pair, a void
\* tag, self-closing tags with and without attributes) and the lines after it
MaxHtml == 2

HtmlFirst ==
  {"<div>", "<div>a</div>", "<br>", "<a href=\"x\" />", "<a/>", "<hr class=\"x\">"}

HtmlVocab == {"<div>", "</div>", "<br>", "b", ""}

HtmlDocs == {<<h>> \o t : h \in HtmlFirst, t \in SeqsUpTo(HtmlVocab, MaxHtml)}

\* Lists of one kind of marker at one indentation m: a marker line with text
\* (M) or without (E), then marker lines, blank lines that are empty (B) or
\* hold a space (S), and lines indented by m + 4 (X), by m + 5 (Y) or holding
\* a marker at m + 4 (N)
MaxList == 2

ListKinds ==
  {[marker |-> "- ", indent |-> ""], [marker |-> "1. ", indent |-> ""],
   [marker |-> "* ", indent |-> "  "]}

ListLine(k, sym) ==
  CASE sym = "M" -> k.indent \o k.marker \o "b"
    [] sym = "E" -> k.indent \o k.marker
    [] sym = "X" -> k.indent \o "    x"
    [] sym = "Y" -> k.indent \o "     y"
    [] sym = "N" -> k.indent \o "    " \o k.marker \o "n"
    [] sym = "S" -> " "
    [] OTHER -> ""

\* Any lines after the first marker line, or an item with two indented
\* lines and blank lines between them
ListShapes ==
  {<<h>> \o t : h \in {"M", "E"},
                t \in SeqsUpTo({"M", "E", "X", "Y", "N", "B", "S"}, MaxList)}
    \cup {<<h, "X">> \o t \o <<"X">> :
            h \in {"M", "E"}, t \in SeqsUpTo({"B", "S"}, MaxList)}

ListDocs ==
  {[i \in 1..Len(t) |-> ListLine(k, t[i])] : k \in ListKinds, t \in ListShapes}

Docs ==
  FlatDocs \cup AdmDocs \cup CodeDocs \cup ParaDocs \cup NestDocs \cup TabDocs
    \cup InfoDocs \cup FrontDocs \cup RangeDocs \cup BodyDocs \cup HtmlDocs
    \cup ListDocs

\* Texts with conditional blocks: openers of both languages, the closer, body
\* and outside lines, a blank line and escaped markers.
MaxCond == 3

CondVocab ==
  {":::python", ":::js", ":::", "A", "B", "", "\\:::python", "\\:::"}

CondTexts == {join(ls) : ls \in SeqsUpTo(CondVocab, MaxCond)}

TargetLanguages == {"python", "js", "java"}

\* How many times the same source is resolved
MaxCalls == 3

\* Texts with reference tokens: names of both tables, of one table, of none,
\* and pieces of tokens
MaxRefs == 2

RefVocab ==
  {"@[Pregel]", "@[Auth]", "@[Topic]", "@[Reference]", "@[Nope]", "see ", "@[",
   "]", "\n"}

RECURSIVE Concat(_)
Concat(ls) == IF ls = <<>> THEN "" ELSE ls[1] \o Concat(Tail(ls))

RefTexts == {Concat(ls) : ls \in SeqsUpTo(RefVocab, MaxRefs)}

OptionalLanguages == {None, Some("python"), Some("js"), Some("java")}

OptionalScopes == {None, Some("python"), Some("js"), Some("global")}

Environs == {{}, {<<"TARGET_LANGUAGE", "js">>}}

\* Documents for a printer that is used several times: plain ones, nested
\* ones, and ones with an admonition kind that the printer refuses, at the top
\* or inside a container, after other blocks
MaxPrints == 3

PrintTexts ==
  {<<"a">>, <<"# h", "", "- a", "    b">>, <<"=== \"T\"", "    a">>,
   <<"!!! note \"T\"", "    a">>, <<"!!! example">>,
   <<"a", "", "!!! note", "    b", "", "    !!! example">>,
   <<"=== \"T\"", "    a", "", "    !!! example">>,
   <<"- a", "    !!! example", "- b">>}

PrintDocs == {ParseText(join(ls)).doc : ls \in PrintTexts}

\* Texts for the lexer: lines of each kind, at several indents of spaces and
\* tabs, and lines that are close to a kind without being of it
MaxLexLines == 2

LexVocab ==
  {"", "  ", "\t", "Hello", "  Hello", "\tHello", " \tHello", "\t  Hello",
   "# H", "####### H", FENCE \o "py", "- a", "-a", "1. a", "> q",
   "=== \"T\"", "---", "----", "---x", "!!! note", "!!!", ":::python",
   ":::", ":::java", "<div>", "<div", "    - a       b", "\t- a"}

LexTexts == {join(ls) : ls \in SeqsUpTo(LexVocab, MaxLexLines)}

\* ------------------------------------------------------------------------
\* State: one Parser at work on a document, then one MintPrinter on the result
\* ------------------------------------------------------------------------

VARIABLES
  lines,      \* Parser.lines
  current,    \* Parser.current
  blocks,     \* the local list "blocks" of Parser.parse
  pc,         \* where the caller of to_mint is
  err,        \* the exception that ended the parse, if any
  doc,        \* the Document that Parser.parse returned
  printed,    \* what MintPrinter.print returned or raised
  md_text,          \* argument of _apply_conditional_rendering
  target_language,  \* argument of _apply_conditional_rendering
  rendered,         \* what _apply_conditional_rendering returned or raised
  cpc,              \* where the caller of _apply_conditional_rendering is
  calls,            \* the calls of _apply_conditional_rendering that are over
  text,             \* argument of lex
  idx,              \* lex: how many lines the loop has been through
  tokens,           \* the tokens that the running call of lex has yielded
  first,            \* the tokens that the first call of lex yielded
  lpc,              \* where the caller of lex is
  printer,          \* a MintPrinter: its fields output and indent_level
  node,             \* argument of the running call of printer.print
  prints,           \* the calls of printer.print that are over
  ppc,              \* where the caller of printer.print is
  content,          \* argument of preprocess_markdown
  language,         \* its argument target_language, if given
  default_scope,    \* its argument default_scope, if given
  environ,          \* os.environ
  processed,        \* what preprocess_markdown returned or raised
  mpc,              \* where the caller of preprocess_markdown is
  event_queue,      \* FileWatcher.event_queue: paths, then the shutdown signal
  pending_files,    \* FileWatcher.pending_files
  rebuild_task,     \* FileWatcher.rebuild_task: a task of tasks, 0 for None
  tasks,            \* the rebuild tasks created so far, in order of creation
  processor,        \* where the task of _process_events is
  closing,          \* where the call of FileWatcher.shutdown is
  awaited,          \* the task that shutdown awaits
  delivered,        \* how many events the observer has delivered
  owed              \* the paths taken from the queue and not built since

\* The variables of a conversion and those of a conditional resolution
mint_vars == <<lines, current, blocks, pc, err, doc, printed>>

cond_vars == <<md_text, target_language, rendered, cpc, calls>>

lex_vars == <<text, idx, tokens, first, lpc>>

vars == <<lines, current, blocks, pc, err, doc, printed,
          md_text, target_language, rendered, cpc, calls,
          text, idx, tokens, first, lpc,
          printer, node, prints, ppc,
          content, language, default_scope, environ, processed, mpc,
          event_queue, pending_files, rebuild_task, tasks, processor,
          closing, awaited, delivered, owed>>

watch_vars == <<event_queue, pending_files, rebuild_task, tasks, processor,
                closing, awaited, delivered, owed>>

pre_vars == <<content, language, default_scope, environ, processed, mpc>>

print_vars == <<printer, node, prints, ppc>>

NoDoc == [type |-> "None"]

NoPrint == [status |-> "none", text |-> "", err |-> NoErr]

NoRender == [status |-> "none", text |-> "", err |-> NoErr]

\* No conditional resolution is going on
CondIdle ==
  /\ md_text = ""
  /\ target_language = "python"
  /\ rendered = NoRender
  /\ cpc = "idle"
  /\ calls = <<>>

\* No call of preprocess_markdown
PreIdle ==
  /\ content = ""
  /\ language = None
  /\ default_scope = None
  /\ environ = {}
  /\ processed = NoRender
  /\ mpc = "none"

\* No FileWatcher has been started
WatchIdle ==
  /\ event_queue = <<>>
  /\ pending_files = {}
  /\ rebuild_task = 0
  /\ tasks = <<>>
  /\ processor = "none"
  /\ closing = "none"
  /\ awaited = 0
  /\ delivered = 0
  /\ owed = {}

\* No printer is kept for several calls
PrintIdle ==
  /\ printer = NewPrinter
  /\ node = NoDoc
  /\ prints = <<>>
  /\ ppc = "none"

\* No call of lex is going on
LexIdle ==
  /\ text = ""
  /\ idx = 0
  /\ tokens = <<>>
  /\ first = <<>>
  /\ lpc = "idle"

\* No conversion is going on
MintIdle ==
  /\ lines = <<>>
  /\ current = 0
  /\ blocks = <<>>
  /\ pc = "idle"
  /\ err = NoErr
  /\ doc = NoDoc
  /\ printed = NoPrint

Init ==
  /\ lines \in Docs
  /\ current = 0
  /\ blocks = <<>>
  /\ pc = "start"
  /\ err = NoErr
  /\ doc = NoDoc
  /\ printed = NoPrint
  /\ CondIdle
  /\ LexIdle
  /\ PrintIdle
  /\ PreIdle
  /\ WatchIdle

\* The effect of one call r of a block parser made by the loop of parse.
\* A recursive parse that never returns leaves the caller waiting for ever.
Apply(r) ==
  /\ current' = r.cur
  /\ blocks' = IF r.status = "ok" /\ r.node # NoneNode
                 THEN Append(blocks, r.node) ELSE blocks
  /\ pc' = CASE r.status = "ok" -> "blocks"
             [] r.status = "error" -> "error"
             [] OTHER -> "hang"
  /\ err' = r.err
  /\ UNCHANGED <<lines, doc, printed>>
  /\ UNCHANGED cond_vars
  /\ UNCHANGED lex_vars
  /\ UNCHANGED print_vars
  /\ UNCHANGED pre_vars
  /\ UNCHANGED watch_vars

\* parse: "if not self.eof() and self.peek().strip() == '---'"
ParseFrontMatter ==
  /\ pc = "start"
  /\ ~eof(lines, current) /\ strip(peek(lines, current)) = "---"
  /\ Apply(parse_front_matter(lines, current))

NoFrontMatter ==
  /\ pc = "start"
  /\ ~(~eof(lines, current) /\ strip(peek(lines, current)) = "---")
  /\ pc' = "blocks"
  /\ UNCHANGED <<lines, current, blocks, err, doc, printed>>
  /\ UNCHANGED cond_vars
  /\ UNCHANGED lex_vars
  /\ UNCHANGED print_vars
  /\ UNCHANGED pre_vars
  /\ UNCHANGED watch_vars

\* The effect of one iteration of "while not self.eof(): block =
\* self.parse_block()", r being what the block parser of the branch did.  An
\* iteration that leaves the cursor where it was is followed by the same
\* iteration again; the model follows MaxSpin of them.
IterationResult(r) ==
  /\ r.cur = current /\ r.status = "ok" => Len(blocks) < Len(lines) + MaxSpin
  /\ Apply(r)

\* The loop of parse is at a line for which parse_block takes the branch d
AtBranch(d) ==
  /\ pc = "blocks"
  /\ ~eof(lines, current)
  /\ Dispatch(peek(lines, current)) = d

SkipEmptyLine ==
  /\ AtBranch("empty")
  /\ IterationResult(Ok(NoneNode, current + 1))

ParseCodeBlock ==
  /\ AtBranch("code")
  /\ IterationResult(parse_code_block(lines, current))

ParseHeading ==
  /\ AtBranch("heading")
  /\ IterationResult(parse_heading(lines, current))

ParseUnorderedList ==
  /\ AtBranch("ul")
  /\ IterationResult(parse_unordered_list(lines, current))

ParseOrderedList ==
  /\ AtBranch("ol")
  /\ IterationResult(parse_ordered_list(lines, current))

ParseQuoteBlock ==
  /\ AtBranch("quote")
  /\ IterationResult(parse_quote_block(lines, current))

ParseAdmonition ==
  /\ AtBranch("admonition")
  /\ IterationResult(parse_admonition(lines, current))

ParseTabBlock ==
  /\ AtBranch("tab")
  /\ IterationResult(parse_tab_block(lines, current))

ParseHtmlBlock ==
  /\ AtBranch("html")
  /\ IterationResult(parse_html_block(lines, current))

ParseParagraph ==
  /\ AtBranch("paragraph")
  /\ IterationResult(parse_paragraph(lines, current))

\* parse: the loop ends at end of input and the Document is returned
ReturnDocument ==
  /\ pc = "blocks"
  /\ eof(lines, current)
  /\ doc' = [type |-> "Document", blocks |-> blocks, start_line |-> 1,
             limit_line |-> Len(lines) + 1]
  /\ pc' = "parsed"
  /\ UNCHANGED <<lines, current, blocks, err, printed>>
  /\ UNCHANGED cond_vars
  /\ UNCHANGED lex_vars
  /\ UNCHANGED print_vars
  /\ UNCHANGED pre_vars
  /\ UNCHANGED watch_vars

\* to_mint: printer.print(doc)
PrintResult(r) ==
  /\ printed' = r
  /\ pc' = IF r.status = "ok" THEN "printed" ELSE "print_error"
  /\ UNCHANGED <<lines, current, blocks, err, doc>>
  /\ UNCHANGED cond_vars
  /\ UNCHANGED lex_vars
  /\ UNCHANGED print_vars
  /\ UNCHANGED pre_vars
  /\ UNCHANGED watch_vars

PrintDocument == pc = "parsed" /\ PrintResult(MintPrint(doc))

Next ==
  \/ ParseFrontMatter
  \/ NoFrontMatter
  \/ SkipEmptyLine
  \/ ParseCodeBlock
  \/ ParseHeading
  \/ ParseUnorderedList
  \/ ParseOrderedList
  \/ ParseQuoteBlock
  \/ ParseAdmonition
  \/ ParseTabBlock
  \/ ParseHtmlBlock
  \/ ParseParagraph
  \/ ReturnDocument
  \/ PrintDocument

Spec == Init /\ [][Next]_vars

\* ------------------------------------------------------------------------
\* State: one call of _apply_conditional_rendering
\* ------------------------------------------------------------------------

CondInit ==
  /\ md_text \in CondTexts
  /\ target_language \in TargetLanguages
  /\ rendered = NoRender
  /\ cpc = "call"
  /\ calls = <<>>
  /\ MintIdle
  /\ LexIdle
  /\ PrintIdle
  /\ PreIdle
  /\ WatchIdle

\* The call ends with the result r, which the caller keeps
Returned(r) ==
  /\ rendered' = r
  /\ calls' = Append(calls, [language |-> target_language, result |-> r])
  /\ UNCHANGED <<md_text, target_language>>

\* "if target_language not in {'python', 'js'}: raise ValueError(msg)"
RaiseUnsupportedLanguage ==
  /\ cpc = "call"
  /\ target_language \notin SupportedLanguages
  /\ Returned(_apply_conditional_rendering(md_text, target_language))
  /\ cpc' = "error"
  /\ UNCHANGED mint_vars
  /\ UNCHANGED lex_vars
  /\ UNCHANGED print_vars
  /\ UNCHANGED pre_vars
  /\ UNCHANGED watch_vars

\* The substitution of the blocks, then of the escaped markers
RenderConditionals ==
  /\ cpc = "call"
  /\ target_language \in SupportedLanguages
  /\ Returned(_apply_conditional_rendering(md_text, target_language))
  /\ cpc' = "done"
  /\ UNCHANGED mint_vars
  /\ UNCHANGED lex_vars
  /\ UNCHANGED print_vars
  /\ UNCHANGED pre_vars
  /\ UNCHANGED watch_vars

\* The caller resolves the same source for the other target language
ResolveOther ==
  /\ cpc = "done"
  /\ Len(calls) < MaxCalls
  /\ target_language' \in {"python", "js"} \ {target_language}
  /\ cpc' = "call"
  /\ UNCHANGED <<md_text, rendered, calls>>
  /\ UNCHANGED mint_vars
  /\ UNCHANGED lex_vars
  /\ UNCHANGED print_vars
  /\ UNCHANGED pre_vars
  /\ UNCHANGED watch_vars

CondNext == RaiseUnsupportedLanguage \/ RenderConditionals \/ ResolveOther

CondSpec == CondInit /\ [][CondNext]_vars

\* ------------------------------------------------------------------------
\* State: a caller that consumes lex(text) to its end, twice
\* ------------------------------------------------------------------------

LexInit ==
  /\ text \in LexTexts
  /\ idx = 0
  /\ tokens = <<>>
  /\ first = <<>>
  /\ lpc = "first"
  /\ MintIdle
  /\ CondIdle
  /\ PrintIdle
  /\ PreIdle
  /\ WatchIdle

\* "lines = text.splitlines()"
LexLines == splitlines(text)

\* One turn of "for idx, raw in enumerate(lines, 1)" that yields the token t
Yield(t) ==
  /\ tokens' = Append(tokens, t)
  /\ idx' = idx + 1
  /\ UNCHANGED <<text, first, lpc>>
  /\ UNCHANGED mint_vars
  /\ UNCHANGED cond_vars
  /\ UNCHANGED print_vars
  /\ UNCHANGED pre_vars
  /\ UNCHANGED watch_vars

\* The loop of lex is at a line
AtLine ==
  /\ lpc \in {"first", "second"}
  /\ idx < Len(LexLines)

\* "if not trimmed: yield Token(TokenType.BLANK, '', indent, idx)"
YieldBlank ==
  /\ AtLine
  /\ Trimmed(LexLines[idx + 1]) = ""
  /\ Yield(TokenAt(LexLines[idx + 1], idx + 1))

\* "if pattern.match(trimmed): yield Token(ttype, trimmed, indent, idx)"
YieldPattern ==
  /\ AtLine
  /\ Trimmed(LexLines[idx + 1]) # ""
  /\ Hits(Trimmed(LexLines[idx + 1])) # {}
  /\ Yield(TokenAt(LexLines[idx + 1], idx + 1))

\* "else: yield Token(TokenType.TEXT, trimmed, indent, idx)"
YieldText ==
  /\ AtLine
  /\ Trimmed(LexLines[idx + 1]) # ""
  /\ Hits(Trimmed(LexLines[idx + 1])) = {}
  /\ Yield(TokenAt(LexLines[idx + 1], idx + 1))

\* "yield Token(TokenType.EOF, '', 0, len(lines) + 1)", which ends the call
YieldEof ==
  /\ lpc \in {"first", "second"}
  /\ idx = Len(LexLines)
  /\ tokens' = Append(tokens, EofToken(Len(LexLines)))
  /\ lpc' = IF lpc = "first" THEN "first_done" ELSE "second_done"
  /\ UNCHANGED <<text, idx, first>>
  /\ UNCHANGED mint_vars
  /\ UNCHANGED cond_vars
  /\ UNCHANGED print_vars
  /\ UNCHANGED pre_vars
  /\ UNCHANGED watch_vars

\* The caller keeps the tokens and calls lex on the same text again
LexAgain ==
  /\ lpc = "first_done"
  /\ first' = tokens
  /\ tokens' = <<>>
  /\ idx' = 0
  /\ lpc' = "second"
  /\ UNCHANGED text
  /\ UNCHANGED mint_vars
  /\ UNCHANGED cond_vars
  /\ UNCHANGED print_vars
  /\ UNCHANGED pre_vars
  /\ UNCHANGED watch_vars

LexNext == YieldBlank \/ YieldPattern \/ YieldText \/ YieldEof \/ LexAgain

LexSpec == LexInit /\ [][LexNext]_vars

\* ------------------------------------------------------------------------
\* State: one MintPrinter on which print is called several times
\* ------------------------------------------------------------------------

PrinterInit ==
  /\ printer = NewPrinter
  /\ node = NoDoc
  /\ prints = <<>>
  /\ ppc = "idle"
  /\ MintIdle
  /\ CondIdle
  /\ LexIdle
  /\ PreIdle
  /\ WatchIdle

\* The caller calls printer.print(d)
CallPrint ==
  /\ ppc = "idle"
  /\ Len(prints) < MaxPrints
  /\ node' \in PrintDocs
  /\ ppc' = "print"
  /\ UNCHANGED <<printer, prints>>
  /\ UNCHANGED mint_vars
  /\ UNCHANGED cond_vars
  /\ UNCHANGED lex_vars
  /\ UNCHANGED pre_vars
  /\ UNCHANGED watch_vars

\* The call of print is over, with what p holds: the fields are those the
\* call leaves, and the caller keeps the result
PrintOver(p) ==
  /\ printer' = [output |-> p.output, indent_level |-> p.indent_level]
  /\ prints' = Append(prints, [node |-> node, result |-> p.result,
                               left |-> printer'])
  /\ ppc' = "idle"
  /\ UNCHANGED node
  /\ UNCHANGED mint_vars
  /\ UNCHANGED cond_vars
  /\ UNCHANGED lex_vars
  /\ UNCHANGED pre_vars
  /\ UNCHANGED watch_vars

\* print  "return '\n'.join(self.output).rstrip()"
PrintReturns ==
  /\ ppc = "print"
  /\ PrintOn(printer, node).result.status = "ok"
  /\ PrintOver(PrintOn(printer, node))

\* print  a visit raises NotImplementedError
PrintRaises ==
  /\ ppc = "print"
  /\ PrintOn(printer, node).result.status # "ok"
  /\ PrintOver(PrintOn(printer, node))

PrinterNext == CallPrint \/ PrintReturns \/ PrintRaises

PrinterSpec == PrinterInit /\ [][PrinterNext]_vars

\* ------------------------------------------------------------------------
\* State: one call of preprocess_markdown
\* ------------------------------------------------------------------------

PreInit ==
  /\ content \in RefTexts
  /\ language \in OptionalLanguages
  /\ default_scope \in OptionalScopes
  /\ environ \in Environs
  /\ processed = NoRender
  /\ mpc = "call"
  /\ MintIdle
  /\ CondIdle
  /\ LexIdle
  /\ PrintIdle
  /\ WatchIdle

\* The call is over with r
Processed(r) ==
  /\ mpc = "call"
  /\ processed' = r
  /\ UNCHANGED <<content, language, default_scope, environ>>
  /\ UNCHANGED mint_vars
  /\ UNCHANGED cond_vars
  /\ UNCHANGED lex_vars
  /\ UNCHANGED print_vars
  /\ UNCHANGED watch_vars

\* preprocess_markdown returns the processed text
PreprocessReturns ==
  /\ TargetLanguageOf(language, environ) \in SupportedLanguages
  /\ Processed(preprocess_markdown(content, "f.md", language, default_scope,
                                   environ))
  /\ mpc' = "done"

\* preprocess_markdown raises the ValueError of _apply_conditional_rendering
PreprocessRaises ==
  /\ TargetLanguageOf(language, environ) \notin SupportedLanguages
  /\ Processed(preprocess_markdown(content, "f.md", language, default_scope,
                                   environ))
  /\ mpc' = "error"

PreNext == PreprocessReturns \/ PreprocessRaises

PreSpec == PreInit /\ [][PreNext]_vars

\* ------------------------------------------------------------------------
\* The file watcher: DocsFileHandler and FileWatcher of pipeline/core/watcher.py.
\* The event loop runs one callback or one step of a coroutine at a time; the
\* observer and the workers of the thread pools are threads of their own.
\* ------------------------------------------------------------------------

endswith(s, p) == Len(s) >= Len(p) /\ SubSeq(s, Len(s) - Len(p) + 1, Len(s)) = p

\* DocumentationBuilder.copy_extensions
copy_extensions ==
  {".mdx", ".md", ".json", ".svg", ".png", ".jpg", ".jpeg", ".gif", ".yml",
   ".yaml", ".css", ".js"}

\* Path.suffix of a file name: from the last dot on, unless that dot is the
\* first or the last character
SuffixFrom(name, dots) ==
  IF dots = {} THEN ""
  ELSE IF FirstIn({i \in dots : \A j \in dots : j <= i}) \in {1, Len(name)}
    THEN ""
  ELSE From(name, FirstIn({i \in dots : \A j \in dots : j <= i}))

SuffixOf(name) == SuffixFrom(name, {i \in 1..Len(name) : Ch(name, i) = "."})

_should_ignore_file(file_name) ==
  \/ \E suf \in {"~", ".bak", ".orig"} : endswith(file_name, suf)
  \/ /\ startswith(file_name, ".")
     /\ \E suf \in {".tmp", ".temp", ".swp"} : endswith(file_name, suf)

\* on_modified puts the path of the event e in the queue
Queued(e) ==
  /\ ~e.is_directory
  /\ ~_should_ignore_file(e.src_path)
  /\ lower(SuffixOf(e.src_path)) \in copy_extensions

\* DocsFileHandler.on_modified (on_created delegates to it): the queue after
\* the event e
on_modified(queue, e) == IF Queued(e) THEN Append(queue, e.src_path) ELSE queue

\* The shutdown signal that shutdown puts in the queue (None)
Sentinel == "<None>"

\* The events the observer delivers, at most MaxEvents of them
MaxEvents == 2

FileEvents ==
  {[src_path |-> "a.md", is_directory |-> FALSE],
   [src_path |-> "B.MD", is_directory |-> FALSE],
   [src_path |-> "a.md~", is_directory |-> FALSE],
   [src_path |-> ".b.md.swp", is_directory |-> FALSE],
   [src_path |-> "notes.txt", is_directory |-> FALSE],
   [src_path |-> "guides", is_directory |-> TRUE]}

WatchedPaths == {e.src_path : e \in {f \in FileEvents : Queued(f)}}

\* asyncio.create_task(self._rebuild_after_delay()): the first step of the
\* task has not run.  cancel says that Task.cancel has been called and the
\* CancelledError not yet thrown into the coroutine; jobs are the calls of
\* builder.build_file submitted to the thread pool, by path.
NewTask == [state |-> "created", cancel |-> FALSE, jobs |-> <<>>]

\* The task t is over: it returned or was cancelled ("done"), or it ended
\* with the exception of build_file ("failed")
Finished(ts, t) == ts[t].state \in {"done", "failed"}

\* "if self.rebuild_task: self.rebuild_task.cancel()": cancel does nothing to
\* a task that is over
Cancelled(ts, t) ==
  IF t = 0 \/ Finished(ts, t) THEN ts ELSE [ts EXCEPT ![t].cancel = TRUE]

\* The event loop is inside ThreadPoolExecutor.__exit__, which waits for the
\* workers (shutdown(wait=True)): no callback and no coroutine runs
Blocked == \E t \in 1..Len(tasks) : tasks[t].state = "unwinding"

\* max_workers of the pool of _build_files_async
max_workers(file_count) == IF file_count = 1 THEN 1 ELSE IF file_count < 4 THEN file_count ELSE 4

Over(jobs) == \A p \in DOMAIN jobs : jobs[p] \in {"done", "failed", "cancelled"}

\* "await loop.run_in_executor(...)" of the single-file branch is cancelled:
\* the cancellation of the awaited future cancels the call in the pool if no
\* worker has started it.  The futures of the other branch are not awaited
\* directly and are left alone.
JobsAtCancel(jobs) ==
  IF Cardinality(DOMAIN jobs) = 1
    THEN [p \in DOMAIN jobs |-> IF jobs[p] = "queued" THEN "cancelled" ELSE jobs[p]]
  ELSE jobs

\* A call of build_file on p is over: p is no longer owed a build, unless it
\* was taken from the queue again after the call was submitted
OwedAfter(p) == IF p \in pending_files THEN owed ELSE owed \ {p}

\* ------------------------------------------------------------------------
\* State: a FileWatcher that start() has started
\* ------------------------------------------------------------------------

WatcherInit ==
  /\ event_queue = <<>>
  /\ pending_files = {}
  /\ rebuild_task = 0
  /\ tasks = <<>>
  /\ processor = "running"
  /\ closing = "idle"
  /\ awaited = 0
  /\ delivered = 0
  /\ owed = {}
  /\ MintIdle
  /\ CondIdle
  /\ LexIdle
  /\ PrintIdle
  /\ PreIdle

\* The observer delivers the event e to the handler (start stops the observer
\* when the processor has ended)
OnModified(e) ==
  /\ processor = "running"
  /\ delivered < MaxEvents
  /\ delivered' = delivered + 1
  /\ event_queue' = on_modified(event_queue, e)
  /\ UNCHANGED <<pending_files, rebuild_task, tasks, processor, closing,
                 awaited, owed>>
  /\ UNCHANGED mint_vars
  /\ UNCHANGED cond_vars
  /\ UNCHANGED lex_vars
  /\ UNCHANGED print_vars
  /\ UNCHANGED pre_vars

\* _process_events  one turn of the loop on a path
TakeEvent ==
  /\ processor = "running"
  /\ ~Blocked
  /\ event_queue # <<>>
  /\ Head(event_queue) # Sentinel
  /\ event_queue' = Tail(event_queue)
  /\ pending_files' = pending_files \cup {Head(event_queue)}
  /\ tasks' = Append(Cancelled(tasks, rebuild_task), NewTask)
  /\ rebuild_task' = Len(tasks) + 1
  /\ owed' = owed \cup {Head(event_queue)}
  /\ UNCHANGED <<processor, closing, awaited, delivered>>
  /\ UNCHANGED mint_vars
  /\ UNCHANGED cond_vars
  /\ UNCHANGED lex_vars
  /\ UNCHANGED print_vars
  /\ UNCHANGED pre_vars

\* _process_events  "if file_path is None: break"
TakeSentinel ==
  /\ processor = "running"
  /\ ~Blocked
  /\ event_queue # <<>>
  /\ Head(event_queue) = Sentinel
  /\ event_queue' = Tail(event_queue)
  /\ processor' = "stopped"
  /\ UNCHANGED <<pending_files, rebuild_task, tasks, closing, awaited,
                 delivered, owed>>
  /\ UNCHANGED mint_vars
  /\ UNCHANGED cond_vars
  /\ UNCHANGED lex_vars
  /\ UNCHANGED print_vars
  /\ UNCHANGED pre_vars

\* A step of the rebuild task t, or of a worker on one of its jobs, that
\* leaves the task as the record r
TaskStep(t, r) ==
  /\ tasks' = [tasks EXCEPT ![t] = r]
  /\ UNCHANGED <<event_queue, rebuild_task, processor, closing, awaited,
                 delivered>>
  /\ UNCHANGED mint_vars
  /\ UNCHANGED cond_vars
  /\ UNCHANGED lex_vars
  /\ UNCHANGED print_vars
  /\ UNCHANGED pre_vars

\* _rebuild_after_delay  the first step, up to "await asyncio.sleep(0.2)".
\* The loop runs its callbacks in the order they were scheduled: the step
\* that ends the task cancelled by _process_events comes before the first
\* step of the task created after the cancel.
TaskStarts(t) ==
  /\ t \in 1..Len(tasks)
  /\ ~Blocked
  /\ \A u \in 1..t - 1 : Finished(tasks, u)
  /\ tasks[t].state = "created"
  /\ ~tasks[t].cancel
  /\ TaskStep(t, [tasks[t] EXCEPT !.state = "sleeping"])
  /\ UNCHANGED <<pending_files, owed>>

\* _rebuild_after_delay  the delay is over: the pending files are taken and
\* their builds submitted to the pool, or there is nothing to build
DelayExpires(t) ==
  /\ t \in 1..Len(tasks)
  /\ ~Blocked
  /\ tasks[t].state = "sleeping"
  /\ ~tasks[t].cancel
  /\ TaskStep(t, IF pending_files = {} THEN [tasks[t] EXCEPT !.state = "done"]
                 ELSE [tasks[t] EXCEPT !.state = "building",
                                       !.jobs = [p \in pending_files |-> "queued"]])
  /\ pending_files' = {}
  /\ UNCHANGED owed

\* A worker of the pool of t takes the call of build_file on p
WorkerStarts(t, p) ==
  /\ t \in 1..Len(tasks)
  /\ p \in DOMAIN tasks[t].jobs
  /\ tasks[t].state \in {"building", "unwinding"}
  /\ tasks[t].jobs[p] = "queued"
  /\ Cardinality({q \in DOMAIN tasks[t].jobs : tasks[t].jobs[q] = "running"})
       < max_workers(Cardinality(DOMAIN tasks[t].jobs))
  /\ TaskStep(t, [tasks[t] EXCEPT !.jobs[p] = "running"])
  /\ UNCHANGED <<pending_files, owed>>

\* builder.build_file(p) returns in its worker
BuildFileReturns(t, p) ==
  /\ t \in 1..Len(tasks)
  /\ p \in DOMAIN tasks[t].jobs
  /\ tasks[t].state \in {"building", "unwinding"}
  /\ tasks[t].jobs[p] = "running"
  /\ TaskStep(t, [tasks[t] EXCEPT !.jobs[p] = "done"])
  /\ owed' = OwedAfter(p)
  /\ UNCHANGED pending_files

\* builder.build_file(p) raises in its worker
BuildFileRaises(t, p) ==
  /\ t \in 1..Len(tasks)
  /\ p \in DOMAIN tasks[t].jobs
  /\ tasks[t].state \in {"building", "unwinding"}
  /\ tasks[t].jobs[p] = "running"
  /\ TaskStep(t, [tasks[t] EXCEPT !.jobs[p] = "failed"])
  /\ owed' = OwedAfter(p)
  /\ UNCHANGED pending_files

\* _build_files_async  every awaited build is over: the exception of the
\* single build ends the task, otherwise _touch_built_files is called
BuildsAwaited(t) ==
  /\ t \in 1..Len(tasks)
  /\ ~Blocked
  /\ tasks[t].state = "building"
  /\ ~tasks[t].cancel
  /\ Over(tasks[t].jobs)
  /\ TaskStep(t, IF /\ Cardinality(DOMAIN tasks[t].jobs) = 1
                    /\ \E p \in DOMAIN tasks[t].jobs : tasks[t].jobs[p] = "failed"
                   THEN [tasks[t] EXCEPT !.state = "failed"]
                 ELSE [tasks[t] EXCEPT !.state = "touching"])
  /\ UNCHANGED <<pending_files, owed>>

\* _touch_built_files returns, and the task with it
Touched(t) ==
  /\ t \in 1..Len(tasks)
  /\ ~Blocked
  /\ tasks[t].state = "touching"
  /\ ~tasks[t].cancel
  /\ TaskStep(t, [tasks[t] EXCEPT !.state = "done"])
  /\ UNCHANGED <<pending_files, owed>>

\* The CancelledError is thrown into the task t: "except
\* asyncio.CancelledError: pass", after the "with ThreadPoolExecutor" block
\* has been left if the task was building
CancelReaches(t) ==
  /\ t \in 1..Len(tasks)
  /\ ~Blocked
  /\ tasks[t].cancel
  /\ tasks[t].state \in {"created", "sleeping", "building", "touching"}
  /\ TaskStep(t, IF tasks[t].state = "building"
                   THEN [tasks[t] EXCEPT !.state = "unwinding",
                                         !.jobs = JobsAtCancel(tasks[t].jobs)]
                 ELSE [tasks[t] EXCEPT !.state = "done"])
  /\ UNCHANGED <<pending_files, owed>>

\* ThreadPoolExecutor.__exit__ returns: the workers have gone through every
\* call that was not cancelled
Unwound(t) ==
  /\ t \in 1..Len(tasks)
  /\ tasks[t].state = "unwinding"
  /\ Over(tasks[t].jobs)
  /\ TaskStep(t, [tasks[t] EXCEPT !.state = "done"])
  /\ UNCHANGED <<pending_files, owed>>

\* Where shutdown is after "self.rebuild_task.cancel()" on the task t: it
\* has returned if there is no task or the task is over, it has raised the
\* exception of a task that failed, it awaits the task otherwise
ClosingAt(t) ==
  IF t = 0 THEN "returned"
  ELSE IF tasks[t].state = "done" THEN "returned"
  ELSE IF tasks[t].state = "failed" THEN "raised"
  ELSE "awaiting"

\* FileWatcher.shutdown, up to "await self.rebuild_task"
Shutdown ==
  /\ ~Blocked
  /\ closing = "idle"
  /\ event_queue' = Append(event_queue, Sentinel)
  /\ tasks' = Cancelled(tasks, rebuild_task)
  /\ awaited' = rebuild_task
  /\ closing' = ClosingAt(rebuild_task)
  /\ UNCHANGED <<pending_files, rebuild_task, processor, delivered, owed>>
  /\ UNCHANGED mint_vars
  /\ UNCHANGED cond_vars
  /\ UNCHANGED lex_vars
  /\ UNCHANGED print_vars
  /\ UNCHANGED pre_vars

\* shutdown  the awaited task is over
ShutdownReturns ==
  /\ ~Blocked
  /\ closing = "awaiting"
  /\ Finished(tasks, awaited)
  /\ closing' = "returned"
  /\ UNCHANGED <<event_queue, pending_files, rebuild_task, tasks, processor,
                 awaited, delivered, owed>>
  /\ UNCHANGED mint_vars
  /\ UNCHANGED cond_vars
  /\ UNCHANGED lex_vars
  /\ UNCHANGED print_vars
  /\ UNCHANGED pre_vars

WatcherNext ==
  \/ \E e \in FileEvents : OnModified(e)
  \/ TakeEvent
  \/ TakeSentinel
  \/ \E t \in 1..MaxEvents : TaskStarts(t)
  \/ \E t \in 1..MaxEvents : DelayExpires(t)
  \/ \E t \in 1..MaxEvents : \E p \in WatchedPaths : WorkerStarts(t, p)
  \/ \E t \in 1..MaxEvents : \E p \in WatchedPaths : BuildFileReturns(t, p)
  \/ \E t \in 1..MaxEvents : \E p \in WatchedPaths : BuildFileRaises(t, p)
  \/ \E t \in 1..MaxEvents : BuildsAwaited(t)
  \/ \E t \in 1..MaxEvents : Touched(t)
  \/ \E t \in 1..MaxEvents : CancelReaches(t)
  \/ \E t \in 1..MaxEvents : Unwound(t)
  \/ Shutdown
  \/ ShutdownReturns

WatcherSpec == WatcherInit /\ [][WatcherNext]_vars

\* The event loop runs every callback that is ready and every timer that has
\* expired, and the workers of a pool run the calls submitted to it; a call
\* of build_file ends, by a return or by an exception.  Nothing makes the
\* observer deliver an event or a caller call shutdown.
WatcherFairness ==
  /\ WF_vars(TakeEvent)
  /\ WF_vars(TakeSentinel)
  /\ WF_vars(ShutdownReturns)
  /\ \A t \in 1..MaxEvents :
       /\ WF_vars(TaskStarts(t))
       /\ WF_vars(DelayExpires(t))
       /\ WF_vars(BuildsAwaited(t))
       /\ WF_vars(Touched(t))
       /\ WF_vars(CancelReaches(t))
       /\ WF_vars(Unwound(t))
       /\ \A p \in WatchedPaths :
            /\ WF_vars(WorkerStarts(t, p))
            /\ WF_vars(BuildFileReturns(t, p) \/ BuildFileRaises(t, p))

WatcherFairSpec == WatcherSpec /\ WatcherFairness

\* ------------------------------------------------------------------------
\* Properties
\* ------------------------------------------------------------------------

\* C1: every call of parse_block made while the parser is not at end of
\* input either raises a parse error or moves the line cursor forward by at
\* least one line, whatever the first line is (so Parser.parse terminates).
C1_ParseBlockAdvances ==
  [][(pc = "blocks" /\ ~eof(lines, current))
       => (pc' = "error" \/ current' > current)]_vars

\* The lines of a printed text
OutputLines == splitNewline(printed.text)

IsFenceLine(l) == startswith(strip(l), FENCE)

\* Index of the first fence line of ls at or after i, or 0
RECURSIVE FenceIndex(_, _)
FenceIndex(ls, i) ==
  IF i > Len(ls) THEN 0
  ELSE IF IsFenceLine(ls[i]) THEN i
  ELSE FenceIndex(ls, i + 1)

FenceCount(ls) == Cardinality({i \in 1..Len(ls) : IsFenceLine(ls[i])})

\* The line l seen from a fence indented by n spaces
Outdent(l, n) == IF Run(l, 1, {" "}) >= n THEN From(l, n + 1) ELSE l

\* The lines between the two fences of ls, relative to the opening fence
FencedContent(ls) ==
  LET o == FenceIndex(ls, 1)
      c == FenceIndex(ls, o + 1)
      n == Run(ls[o], 1, {" "})
  IN  [k \in 1..(c - o - 1) |-> Outdent(ls[o + k], n)]

\* C2: code block content survives parse followed by print byte for byte.
\* For a document with one fenced code block, at top level or nested in a
\* tab, admonition or list item, the lines printed between the fences are the
\* source lines between the fences, each taken relative to the indentation of
\* its opening fence (which is none at top level): white-space-only lines and
\* leading indentation included.
C2_CodeContentPreserved ==
  (pc = "printed" /\ FenceCount(lines) = 2)
    => /\ FenceCount(OutputLines) = 2
       /\ FencedContent(OutputLines) = FencedContent(lines)

NonBlank(ls) == SelectSeq(ls, LAMBDA l : strip(l) # "")

\* What the claim C3 says of the lines ls for target language L, a block
\* running from an opener line to the next closer line: inside is the
\* language of the open block, "" outside of a block.
RECURSIVE ExpectedLines(_, _, _)
ExpectedLines(ls, inside, L) ==
  IF ls = <<>> THEN <<>>
  ELSE IF inside = "" /\ Head(ls) \in {":::python", ":::js"}
    THEN ExpectedLines(Tail(ls), From(Head(ls), 4), L)
  ELSE IF inside # "" /\ Head(ls) = ":::"
    THEN ExpectedLines(Tail(ls), "", L)
  ELSE IF inside \in {"", L}
    THEN <<Unescape(Head(ls))>> \o ExpectedLines(Tail(ls), inside, L)
  ELSE ExpectedLines(Tail(ls), inside, L)

\* Every opener line of ls is followed by a closer line
RECURSIVE AllClosed(_, _)
AllClosed(ls, inside) ==
  IF ls = <<>> THEN inside = ""
  ELSE IF inside = "" /\ Head(ls) \in {":::python", ":::js"}
    THEN AllClosed(Tail(ls), From(Head(ls), 4))
  ELSE IF inside # "" /\ Head(ls) = ":::" THEN AllClosed(Tail(ls), "")
  ELSE AllClosed(Tail(ls), inside)

\* C3: for target language L in {python, js}, _apply_conditional_rendering
\* replaces each conditional block of language L by its body, removes each
\* block of the other language with opener, body and closer, and leaves the
\* text outside of the blocks as it is, so that no line of the other
\* language's block is in the output.  Stated on the texts in which every
\* opener has its closer, and comparing the lines that are not blank.
C3_ConditionalBlocksResolved ==
  (cpc = "done" /\ AllClosed(splitNewline(md_text), ""))
    => NonBlank(splitNewline(rendered.text))
         = NonBlank(ExpectedLines(splitNewline(md_text), "", target_language))

Contains(s, w) == \E p \in 1..Len(s) : At(s, p, w)

\* C4: parsing an admonition whose kind is not in the allowed set raises an
\* unsupported-kind error that carries the 1-based line number of the header
\* (an exception of the parser carries its message and nothing else, so the
\* message names the line), and no Document is returned.
C4_UnsupportedKindCarriesLine ==
  [][(/\ pc = "blocks"
      /\ ~eof(lines, current)
      /\ Dispatch(peek(lines, current)) = "admonition"
      /\ pc' = "error"
      /\ startswith(err'.msg, "Unsupported admonition type"))
       => (Contains(err'.msg, IntToStr(current + 1)) /\ doc' = NoDoc)]_vars

\* A malformed admonition header at nesting depth k: alone at depth 0, else
\* the one line of the body of a container whose body is at depth k - 1.
RECURSIVE MalformedAt(_)
MalformedAt(k) ==
  IF k = 0 THEN {<<h>> : h \in MalformedHeaders}
  ELSE {Wrap(h, d) : h \in Containers, d \in MalformedAt(k - 1)}

MalformedDocs == UNION {MalformedAt(k) : k \in 0..MaxDepth}

\* C5: an admonition header line that does not split into 2 or 3 parts
\* aborts the parse with an error at every nesting depth: raised while the
\* body of a list item, tab or admonition is parsed, the error reaches the
\* caller of Parser.parse and no Document is returned.
C5_MalformedHeaderAborts ==
  [][(pc = "blocks" /\ lines \in MalformedDocs)
       => (/\ pc' = "error"
           /\ err'.msg = "Invalid admonition header format"
           /\ doc' = NoDoc)]_vars

\* The parse of a malformed header two containers deep has ended in the error
C5_NestedHeaderAborted ==
  /\ pc = "error"
  /\ lines \in MalformedDocs
  /\ Len(lines) >= 3
  /\ err.msg = "Invalid admonition header format"
  /\ doc = NoDoc

\* C6: when the dispatcher meets a line that starts with "===" and does not
\* match the quoted-title tab header pattern, the parse aborts with an error
\* and no Document is returned.
C6_BadTabHeaderAborts ==
  [][(/\ pc = "blocks"
      /\ ~eof(lines, current)
      /\ startswith(peek(lines, current), "===")
      /\ ~TAB_HEADER_RE(peek(lines, current)))
       => (pc' = "error" /\ doc' = NoDoc)]_vars

\* C7: MintPrinter.print does not raise on a Document that Parser.parse
\* returned: every admonition kind the parser accepts is renderable under
\* both tags.
C7_PrintDoesNotRaise == pc # "print_error"

ClaimedKinds == {"note", "warning", "info", "tip", "example", "danger"}

\* The title that the header text ti gives
ClaimedTitle(ti) ==
  CASE ti = "" -> ""
    [] ti = " \"T\"" -> "T"
    [] OTHER -> "my title"

\* C8: for each kind in {note, warning, info, tip, example, danger} and each
\* tag, a header "tag kind" with or without a quoted title parses without
\* error into an Admonition node with that tag, the kind, and the title
\* without its double quotes (empty when there is none).
C8_ClaimedKindsParse ==
  [][\A t \in AdmTags, k \in ClaimedKinds, ti \in AdmTitles :
       (pc = "blocks" /\ current = 0 /\ lines = <<t \o " " \o k \o ti>>)
         => /\ pc' = "blocks"
            /\ Len(blocks') = 1
            /\ blocks'[1].type = "Admonition"
            /\ blocks'[1].tag = t
            /\ blocks'[1].kind = k
            /\ blocks'[1].title = ClaimedTitle(ti)]_vars

Stripped(ls) == [i \in 1..Len(ls) |-> strip(ls[i])]

\* C9: for a document of headings, paragraphs and code blocks only, to_mint
\* returns the input up to white space: the non-blank output lines are the
\* non-blank input lines in the same order, and a paragraph of several
\* lines (such as a pipe table) comes out without a blank line between two
\* of its lines.
C9_PlainDocumentsUnchanged ==
  (pc = "printed" /\ lines \in ParaDocs \cup CodeDocs)
    => /\ NonBlank(Stripped(OutputLines)) = NonBlank(Stripped(lines))
       /\ lines \in SeqsUpTo({"a", "| t |"}, MaxPara)
            => printed.text = join(lines)

\* A node without its line numbers and, for a Paragraph, without its lines;
\* a list of blocks without the FrontMatter nodes and with one Paragraph for
\* each run of Paragraphs.
RECURSIVE Shape(_)

RECURSIVE Shapes(_)

Shape(n) ==
  IF n.type = "Paragraph" THEN [type |-> "Paragraph"]
  ELSE [f \in DOMAIN n \ {"start_line", "limit_line"} |->
          IF f = "blocks" THEN Shapes(n.blocks)
          ELSE IF f \in {"items", "tabs"}
            THEN [i \in 1..Len(n[f]) |-> Shape(n[f][i])]
          ELSE n[f]]

Shapes(bs) ==
  IF bs = <<>> THEN <<>>
  ELSE IF Head(bs).type = "FrontMatter" THEN Shapes(Tail(bs))
  ELSE IF /\ Head(bs).type = "Paragraph"
          /\ Shapes(Tail(bs)) # <<>>
          /\ Head(Shapes(Tail(bs))).type = "Paragraph"
    THEN Shapes(Tail(bs))
  ELSE <<Shape(Head(bs))>> \o Shapes(Tail(bs))

\* C10: for a text that parses, the parse of the printed text is structurally
\* equal to the parse of the text: same node kinds, order and field values,
\* line numbers aside, except for FrontMatter, which is dropped, and for the
\* joining of Paragraph lines.
C10_RoundTrip ==
  pc = "printed"
    => /\ ParseText(printed.text).status = "ok"
       /\ Shapes(ParseText(printed.text).blocks) = Shapes(doc.blocks)

\* The kind with its first letter in upper case: the name of its callout
Capitalize(k) ==
  IF k = "" THEN ""
  ELSE Ch(UpperChars, CHOOSE i \in 1..26 : Ch(LowerChars, i) = Ch(k, 1))
       \o From(k, 2)

\* The line l one indent level deeper
Deeper(l) == IF l = "" THEN "" ELSE "  " \o l

\* The lines that the blocks bs give when printed at the level of the document
BodyLines(bs) == _visit_document([type |-> "Document", blocks |-> bs], 0).out

\* What the claim C11 says of the admonition n printed at the top level
ExpectedAdmonition(n) ==
  LET body == [i \in 1..Len(BodyLines(n.blocks)) |-> Deeper(BodyLines(n.blocks)[i])]
  IN  IF n.tag = "???"
        THEN <<IF n.title # "" THEN "<Accordion title=\"" \o n.title \o "\">"
               ELSE "<Accordion>">>
             \o body \o <<"</Accordion>">>
      ELSE <<"<" \o Capitalize(n.kind) \o ">">>
           \o (IF n.title # "" THEN <<"  **" \o n.title \o "**">> ELSE <<>>)
           \o body \o <<"</" \o Capitalize(n.kind) \o ">">>

\* C11: a foldable admonition ("???") prints as an <Accordion> element, with
\* a title attribute when it has a title, and a plain admonition ("!!!")
\* prints as the callout element of its kind with the title, when it has
\* one, as a bolded first line; the body blocks are printed between the
\* opening and the closing tag, in source order, one indent level deeper.
C11_AdmonitionPrinted ==
  (/\ pc \in {"printed", "print_error"}
   /\ Len(doc.blocks) = 1
   /\ doc.blocks[1].type = "Admonition")
    => /\ printed.status = "ok"
       /\ OutputLines = ExpectedAdmonition(doc.blocks[1])

\* The titles of the tab header lines of ls, in order
HeaderTitles(ls) ==
  LET hs == SelectSeq(ls, LAMBDA l : startswith(l, "=== \""))
  IN  [i \in 1..Len(hs) |-> Sub(hs[i], 6, Len(hs[i]) - 1)]

\* The lines of ls that open a tab element
TabOpenings(ls) == SelectSeq(ls, LAMBDA l : startswith(strip(l), "<Tab "))

\* C12: consecutive tab headers at column 0, each followed by its indented
\* body, with or without blank lines between them, give exactly one
\* TabBlock whose tabs are in source order with the quoted titles as titles,
\* and the printer emits one <Tabs> container with one <Tab title="...">
\* element for each tab, in the same order.
C12_TabsInOneBlock ==
  /\ (pc \in {"parsed", "printed", "print_error"} /\ lines \in TabDocs)
       => /\ Len(doc.blocks) = 1
          /\ doc.blocks[1].type = "TabBlock"
          /\ [i \in 1..Len(doc.blocks[1].tabs) |-> doc.blocks[1].tabs[i].title]
               = HeaderTitles(lines)
  /\ (pc \in {"printed", "print_error"} /\ lines \in TabDocs)
       => /\ printed.status = "ok"
          /\ Head(OutputLines) = "<Tabs>"
          /\ OutputLines[Len(OutputLines)] = "</Tabs>"
          /\ SelectSeq(OutputLines, LAMBDA l : strip(l) = "<Tabs>") = <<"<Tabs>">>
          /\ TabOpenings(OutputLines)
               = [i \in 1..Len(HeaderTitles(lines)) |->
                    "  <Tab title=\"" \o HeaderTitles(lines)[i] \o "\">"]

\* Two tabs or more have been parsed into one TabBlock and printed
C12_TwoTabsPrinted ==
  /\ pc = "printed"
  /\ lines \in TabDocs
  /\ Len(doc.blocks) = 1
  /\ doc.blocks[1].type = "TabBlock"
  /\ Len(doc.blocks[1].tabs) >= 2

\* The info string of the opening fence of the document, taken apart
InfoOf(ls) == CHOOSE c \in InfoCases : InfoLine(c) = ls[1]

\* C13: the first word after the opening fence is the language of the
\* CodeBlock and the rest of the line its meta, the printed opening fence has
\* that language and that meta as they are, and a fence with no info string,
\* or with whitespace only, has no language and prints as the bare fence.
C13_FenceInfoKept ==
  (pc \in {"parsed", "printed", "print_error"} /\ lines \in InfoDocs)
    => /\ Len(doc.blocks) = 1
       /\ doc.blocks[1].type = "CodeBlock"
       /\ doc.blocks[1].language
            = (IF InfoOf(lines).language = "" THEN None
               ELSE Some(InfoOf(lines).language))
       /\ doc.blocks[1].meta = InfoOf(lines).meta
       /\ pc # "parsed"
            => /\ printed.status = "ok"
               /\ Head(OutputLines)
                    = FENCE \o InfoOf(lines).language
                        \o (IF InfoOf(lines).meta # ""
                              THEN " " \o InfoOf(lines).meta ELSE "")

\* A fence with a language and a meta of two words has been printed
C13_MetaPrinted ==
  /\ pc = "printed"
  /\ lines \in InfoDocs
  /\ doc.blocks[1].meta = "m  k"
  /\ Head(OutputLines) = FENCE \o "py m  k"

\* C14: the first block of the Document that parse returns is a FrontMatter
\* exactly when the first line of the source is a front-matter delimiter as
\* the lexer classifies lines (three dashes or more), and no block after the
\* first is a FrontMatter.
C14_FrontMatterOnlyFirst ==
  pc \in {"parsed", "printed", "print_error"}
    => /\ (doc.blocks # <<>> /\ doc.blocks[1].type = "FrontMatter")
            <=> (lines # <<>> /\ TokenAt(lines[1], 1).type = "FRONT_MATTER")
       /\ \A i \in 2..Len(doc.blocks) : doc.blocks[i].type # "FrontMatter"

\* The Document d without its first block
WithoutFirst(d) == [d EXCEPT !.blocks = Tail(d.blocks)]

\* C15: the printer drops the front matter: the text printed for a Document
\* whose first block is a FrontMatter is the text printed for the same
\* Document without that block, the front matter giving no line of output,
\* not even a blank separator.
C15_FrontMatterDropped ==
  (/\ pc \in {"printed", "print_error"}
   /\ doc.blocks # <<>>
   /\ doc.blocks[1].type = "FrontMatter")
    => printed = MintPrint(WithoutFirst(doc))

\* The children of a node, in order: the blocks of a Document, a ListItem, a
\* Tab or an Admonition, the items of a list, the tabs of a TabBlock
Children(n) ==
  CASE n.type \in {"Document", "ListItem", "Tab", "Admonition"} -> n.blocks
    [] n.type \in {"UnorderedList", "OrderedList"} -> n.items
    [] n.type = "TabBlock" -> n.tabs
    [] OTHER -> <<>>

IsContainer(n) ==
  n.type \in {"Document", "ListItem", "Tab", "Admonition", "UnorderedList",
              "OrderedList", "TabBlock"}

\* The node n and every node below it
RECURSIVE NodesOf(_)
NodesOf(n) ==
  {n} \cup UNION {NodesOf(Children(n)[i]) : i \in 1..Len(Children(n))}

\* C16: in the tree that parse returns, every node has limit_line >
\* start_line, except possibly a container without children; a Heading has
\* limit_line = start_line + 1; a Paragraph, a CodeBlock, a QuoteBlock and an
\* HTMLBlock each cover one source line at least.
C16_RangesNotEmpty ==
  pc \in {"parsed", "printed", "print_error"}
    => \A n \in NodesOf(doc) :
         /\ n.limit_line > n.start_line
              \/ (IsContainer(n) /\ Children(n) = <<>>)
         /\ n.type = "Heading" => n.limit_line = n.start_line + 1
         /\ n.type \in {"Paragraph", "CodeBlock", "QuoteBlock", "HTMLBlock"}
              => n.limit_line - n.start_line >= 1

\* A Document has been returned that holds a Heading followed by a Paragraph
\* inside a container that is itself inside a container
C16_NestedHeadingParsed ==
  /\ pc = "parsed"
  /\ \E m \in NodesOf(doc) :
       /\ m.type \in {"Admonition", "Tab", "ListItem"}
       /\ m \notin {doc.blocks[i] : i \in 1..Len(doc.blocks)}
       /\ \E i \in 1..Len(m.blocks) - 1 :
            /\ m.blocks[i].type = "Heading"
            /\ m.blocks[i + 1].type = "Paragraph"

\* The children of n have ranges inside the range of n, one after the other
ChildrenInOrder(n) ==
  /\ \A i \in 1..Len(Children(n)) :
       /\ n.start_line <= Children(n)[i].start_line
       /\ Children(n)[i].limit_line <= n.limit_line
  /\ \A i \in 1..Len(Children(n)) - 1 :
       /\ Children(n)[i].start_line < Children(n)[i + 1].start_line
       /\ Children(n)[i].limit_line <= Children(n)[i + 1].start_line

\* C17: in the tree that parse returns, the children of every container
\* (Document, list, ListItem, TabBlock, Tab, Admonition) have line ranges
\* [start_line, limit_line) that increase strictly, do not overlap and lie
\* within the range of the container, at any depth of dedented bodies.
C17_ChildrenWithinParent ==
  pc \in {"parsed", "printed", "print_error"}
    => \A n \in NodesOf(doc) : ChildrenInOrder(n)

\* Number of lines of the text t: one for each newline, and one for what
\* follows the last newline if anything does
LineCount(t) ==
  Cardinality({i \in 1..Len(t) : Ch(t, i) = "\n"})
    + (IF t # "" /\ Ch(t, Len(t)) # "\n" THEN 1 ELSE 0)

\* C18: for a text of N lines a call of lex yields N + 1 tokens: one token
\* other than EOF for each line, with the line numbers 1..N in order, then one
\* EOF token with line N + 1; the empty text yields the EOF token only; and
\* a second call on the same text yields the same sequence.
C18_OneTokenPerLine ==
  /\ lpc \in {"first_done", "second_done"}
       => /\ Len(tokens) = LineCount(text) + 1
          /\ \A i \in 1..LineCount(text) :
               tokens[i].type # "EOF" /\ tokens[i].line = i
          /\ tokens[Len(tokens)].type = "EOF"
          /\ tokens[Len(tokens)].line = LineCount(text) + 1
          /\ text = "" => Len(tokens) = 1
  /\ lpc = "second_done" => tokens = first

\* Two calls of lex on a text of two lines, the second one blank, are over
C18_TwoCallsDone ==
  /\ lpc = "second_done"
  /\ LineCount(text) = 2
  /\ Len(first) = 3
  /\ first[2].type = "BLANK"

\* The spaces and tabs that the line raw starts with
Leading(raw) == Sub(raw, 1, Run(raw, 1, {" ", "\t"}))

\* The width of a run ws of spaces and tabs: a space counts for one column,
\* a tab goes to the next multiple of four
RECURSIVE WidthOf(_)
WidthOf(ws) ==
  IF ws = "" THEN 0
  ELSE IF Ch(ws, Len(ws)) = " " THEN WidthOf(Sub(ws, 1, Len(ws) - 1)) + 1
  ELSE ((WidthOf(Sub(ws, 1, Len(ws) - 1)) \div 4) + 1) * 4

\* C19: the indent of the token of a line is the width of the white space
\* the line starts with (a space counts one, a tab goes to the next multiple
\* of four), its value is the line without exactly these spaces and tabs,
\* and a line of white space only gives a BLANK token with an empty value
\* and that width as indent.
C19_IndentAndValue ==
  \A i \in 1..Len(tokens) :
    tokens[i].type # "EOF"
      => /\ tokens[i].indent = WidthOf(Leading(splitlines(text)[i]))
         /\ tokens[i].value
              = From(splitlines(text)[i], Len(Leading(splitlines(text)[i])) + 1)
         /\ Leading(splitlines(text)[i]) = splitlines(text)[i]
              => tokens[i].type = "BLANK" /\ tokens[i].value = ""

\* The text t with each escaped marker replaced by the character "@", which
\* no pattern of the resolver knows, and the way back to the literal marker
RECURSIVE MaskText(_)
MaskText(t) ==
  IF t = "" THEN ""
  ELSE IF At(t, 1, "\\:::") THEN "@" \o MaskText(From(t, 5))
  ELSE Ch(t, 1) \o MaskText(From(t, 2))

RECURSIVE UnmaskText(_)
UnmaskText(t) ==
  IF t = "" THEN ""
  ELSE IF Ch(t, 1) = "@" THEN ":::" \o UnmaskText(From(t, 2))
  ELSE Ch(t, 1) \o UnmaskText(From(t, 2))

\* No marker of t is without its backslash
OnlyEscaped(t) == \A p \in 1..Len(t) : At(t, p, ":::") => Ch(t, p - 1) = "\\"

\* C20: an escaped marker never opens or closes a conditional block: the
\* result is the one that the text gives when each escaped marker is any
\* other word and is written as the literal marker afterwards. So a text
\* whose markers are all escaped keeps all its lines, for each target
\* language, and no escaped marker is left with its backslash in the output.
C20_EscapedMarkersLiteral ==
  cpc = "done"
    => /\ rendered.text
            = UnmaskText(PatternSub(MaskText(md_text), 1, target_language))
       /\ OnlyEscaped(md_text) => rendered.text = UnmaskText(MaskText(md_text))
       /\ ~Contains(rendered.text, "\\:::")

\* A text of an escaped opener, a line and a closer has been resolved for
\* the other language, and all three lines are in the output
C20_EscapedOpenerKept ==
  /\ cpc = "done"
  /\ md_text = "\\:::python\nA\n:::"
  /\ target_language = "js"
  /\ rendered.text = ":::python\nA\n:::"

\* C21: a call of _apply_conditional_rendering with a target language other
\* than python and js raises, with no text produced; a call for python or js
\* returns a text whatever the input; and the result depends on the text and
\* the target language only: the calls made for one language on the same
\* source, before or after a call for the other, give the same result.
C21_ResolverTotalAndPure ==
  \A i \in 1..Len(calls) :
    /\ calls[i].language \notin {"python", "js"}
         => /\ calls[i].result.status = "error"
            /\ calls[i].result.err.exc = "ValueError"
            /\ calls[i].result.text = ""
    /\ calls[i].language \in {"python", "js"} => calls[i].result.status = "ok"
    /\ \A j \in 1..Len(calls) :
         calls[j].language = calls[i].language
           => calls[j].result = calls[i].result

\* The same source has been resolved for python, for js and for python
\* again, the outputs for python and js being different
C21_ThreeCallsDone ==
  /\ Len(calls) = 3
  /\ calls[1].language = "python"
  /\ calls[2].language = "js"
  /\ calls[3].language = "python"
  /\ calls[1].result.text # calls[2].result.text

\* C22: whatever calls of print have been made on a printer before, a call
\* returns (or raises) what a printer just made returns for the same
\* Document, also after a call that a visit aborted part-way, and the
\* Document is after the call what it was before.
C22_PrintDeterministic ==
  /\ \A i \in 1..Len(prints) : prints[i].result = MintPrint(prints[i].node)
  /\ ppc = "idle" /\ prints # <<>> => node = prints[Len(prints)].node

\* A call that was aborted inside a container, with lines in the output and
\* the level raised, has been followed by a call that returned a text
C22_PrintAfterAbort ==
  /\ Len(prints) >= 2
  /\ prints[1].result.status = "error"
  /\ prints[1].left.indent_level > 0
  /\ prints[1].left.output # <<>>
  /\ prints[2].result.status = "ok"
  /\ prints[2].result.text # ""

\* str.replace(old, new)
RECURSIVE Replace(_, _, _)
ReplaceAfter(s, old, new, q) ==
  IF q # 0 THEN Sub(s, 1, q - 1) \o new \o Replace(From(s, q + Len(old)), old, new)
  ELSE s

Replace(s, old, new) ==
  ReplaceAfter(s, old, new, FirstIn({q \in 1..Len(s) : At(s, q, old)}))

\* The text with the token of every name of the table replaced by its URL
RECURSIVE ReplaceNames(_, _, _)
ReplaceNames(s, table, names) ==
  IF names = {} THEN s
  ELSE LET n == CHOOSE n \in names : TRUE
       IN  ReplaceNames(Replace(s, "@[" \o n \o "]", table[n]), table,
                        names \ {n})

\* How many times w occurs in s
Count(s, w) == Cardinality({p \in 1..Len(s) : At(s, p, w)})

\* The scope of a call: the one given, else the target language, which is the
\* one given, else that of the environment, else python
ScopeOfCall ==
  IF default_scope # None THEN default_scope[1]
  ELSE IF language # None THEN language[1]
  ELSE IF environ = {} THEN "python" ELSE "js"

TableOfCall ==
  IF ScopeOfCall \in DOMAIN SCOPE_LINK_MAPS THEN SCOPE_LINK_MAPS[ScopeOfCall]
  ELSE EmptyDict

RECURSIVE Unlined(_)
Unlined(n) ==
  [f \in DOMAIN n \ {"start_line", "limit_line"} |->
     IF f \in {"blocks", "items", "tabs"}
       THEN [i \in 1..Len(n[f]) |-> Unlined(n[f][i])]
     ELSE n[f]]

\* What the claim C24 takes for the body of the header in line 1 of ls: the
\* last line of the longest run of lines after it that are blank or start
\* with white space, the header standing at column 0
RECURSIVE ClaimedBodyEnd(_, _)
ClaimedBodyEnd(ls, k) ==
  IF k < Len(ls) /\ (strip(ls[k + 1]) = "" \/ Leading(ls[k + 1]) # "")
    THEN ClaimedBodyEnd(ls, k + 1)
    ELSE k

\* These lines without their base indentation, parsed as a document
ClaimedChildren(ls) ==
  Parse([i \in 1..(ClaimedBodyEnd(ls, 1) - 1) |->
           IF strip(ls[i + 1]) = "" THEN ls[i + 1] ELSE Dedent(ls[i + 1])]).blocks

\* The admonition or the first tab that the first line of the document opens
FirstContainer ==
  IF doc.blocks[1].type = "TabBlock" THEN doc.blocks[1].tabs[1]
  ELSE doc.blocks[1]

\* C24: the body of an admonition or of a tab is the longest run of lines
\* after its header that are blank or indented more than the header; the
\* node ends with that run, and its children are the blocks of the run,
\* dedented and parsed as a document of its own.
C24_BodyIsIndentedRun ==
  (pc \in {"parsed", "printed", "print_error"} /\ lines \in BodyDocs) =>
    /\ FirstContainer.limit_line = ClaimedBodyEnd(lines, 1) + 1
    /\ [i \in 1..Len(FirstContainer.blocks) |-> Unlined(FirstContainer.blocks[i])]
         = [i \in 1..Len(ClaimedChildren(lines)) |-> Unlined(ClaimedChildren(lines)[i])]

\* The tags of a line from position p on, from left to right: for each its
\* name in lower case, whether it is a closing tag, and whether it is written
\* as self-closing, with "/" before its ">"
RECURSIVE TagsFrom(_, _)
TagsFrom(line, p) ==
  IF p > Len(line) THEN <<>>
  ELSE IF Ch(line, p) = "<" /\ HtmlMatch(From(line, p)).matched
    THEN <<[name |-> lower(HtmlMatch(From(line, p)).tag),
            closing |-> HtmlMatch(From(line, p)).closing,
            slash |-> Ch(line, Find(line, ">", p) - 1) = "/"]>>
         \o TagsFrom(line, Find(line, ">", p) + 1)
  ELSE TagsFrom(line, p + 1)

\* The open tags after the tags ts: a void or self-closing tag changes
\* nothing, an opening tag is added, a closing tag closes the last open tag
\* of its name
RECURSIVE OpenAfter(_, _)
OpenAfter(stack, ts) ==
  IF ts = <<>> THEN stack
  ELSE OpenAfter(
         IF Head(ts).slash \/ Head(ts).name \in VoidTags THEN stack
         ELSE IF ~Head(ts).closing THEN Append(stack, Head(ts).name)
         ELSE IF stack # <<>> /\ stack[Len(stack)] = Head(ts).name
           THEN SubSeq(stack, 1, Len(stack) - 1)
         ELSE stack,
         Tail(ts))

\* The last line of the HTML block that starts after line k with the open
\* tags of stack, when every tag of every line counts
RECURSIVE ClaimedHtmlEnd(_, _, _)
ClaimedHtmlEnd(ls, k, stack) ==
  IF k >= Len(ls) THEN k
  ELSE IF OpenAfter(stack, TagsFrom(ls[k + 1], 1)) = <<>> THEN k + 1
  ELSE ClaimedHtmlEnd(ls, k + 1, OpenAfter(stack, TagsFrom(ls[k + 1], 1)))

\* C25: an HTML block runs up to and including the first line after which
\* every tag opened so far, other than void and self-closing ones, has been
\* closed, all the tags of each line counted, and no further; a line with an
\* opening tag and its closing tag is an HTML block of that line alone.
C25_HtmlBlockEndsWhenBalanced ==
  (pc \in {"parsed", "printed", "print_error"} /\ lines \in HtmlDocs) =>
    /\ doc.blocks[1].type = "HTMLBlock"
    /\ doc.blocks[1].limit_line = ClaimedHtmlEnd(lines, 0, <<>>) + 1

\* C26: a first line that is a void tag or a self-closing tag, with or
\* without attributes, is an HTML block of that line alone.
C26_VoidOrSelfClosingEndsBlock ==
  (/\ pc \in {"parsed", "printed", "print_error"}
   /\ lines \in HtmlDocs
   /\ Len(TagsFrom(lines[1], 1)) = 1
   /\ (TagsFrom(lines[1], 1)[1].slash \/ TagsFrom(lines[1], 1)[1].name \in VoidTags)) =>
    /\ doc.blocks[1].type = "HTMLBlock"
    /\ doc.blocks[1].start_line = 1
    /\ doc.blocks[1].limit_line = 2

\* The kind of list that the first line of ls opens, and the indentation of
\* its marker
KindOfList(ls) ==
  IF UNORDERED_MARKER_RE(ls[1]) THEN "UnorderedList" ELSE "OrderedList"

\* The marker lines of ls at the indentation of the first, in order
ItemStarts(ls) ==
  SelectSeq([i \in 1..Len(ls) |-> i],
            LAMBDA i : /\ MarkerMatch(KindOfList(ls), ls[i])
                       /\ MarkerIndent(ls[i]) = MarkerIndent(ls[1]))

\* ls without the blank lines it starts with
RECURSIVE DropBlank(_)
DropBlank(ls) ==
  IF ls # <<>> /\ strip(Head(ls)) = "" THEN DropBlank(Tail(ls)) ELSE ls

\* The lines from line a + 1 to line b - 1 of ls without the first n
\* characters of each, from the first to the last that is not blank
ClaimedItemBody(ls, a, b, n) ==
  PopBlank(DropBlank([i \in 1..(b - a - 1) |->
                        IF strip(ls[a + i]) = "" THEN ls[a + i]
                        ELSE From(ls[a + i], n + 1)]))

\* The blocks of the item that starts at line a and ends before line b: the
\* Paragraph of the text after the marker, if there is any text, then the
\* blocks of its body parsed on its own
ClaimedItemBlocks(ls, a, b) ==
  LET after == rstrip(From(ls[a], MarkerLen(KindOfList(ls), ls[a]) + 1))
      body == ClaimedItemBody(ls, a, b, MarkerIndent(ls[1]) + 4)
  IN  (IF strip(after) # ""
         THEN <<[type |-> "Paragraph", value |-> <<after>>, start_line |-> a,
                 limit_line |-> a + 1]>>
         ELSE <<>>)
      \o (IF body = <<>> THEN <<>> ELSE Parse(body).blocks)

\* The document d of ls is one list of the kind of its markers, with one item
\* for each marker line at the indentation of the first, in order, each with
\* the blocks above
ListAsClaimed(ls, d) ==
  LET starts == ItemStarts(ls)
  IN  /\ Len(d.blocks) = 1
      /\ d.blocks[1].type = KindOfList(ls)
      /\ Len(d.blocks[1].items) = Len(starts)
      /\ \A j \in 1..Len(starts) :
           d.blocks[1].items[j].blocks
             = ClaimedItemBlocks(ls, starts[j],
                                 IF j < Len(starts) THEN starts[j + 1]
                                 ELSE Len(ls) + 1)

\* C27: a text of marker lines of one kind at indentation m, blank lines and
\* lines indented by m + 4 or more is parsed into one list with one ListItem
\* for each marker line, in order; the first block of an item is the
\* Paragraph of the text after its marker (an item whose marker line has no
\* text has none), and its later blocks are those of the following lines
\* indented by m + 4 or more, dedented by m + 4 and parsed on their own.
C27_ItemsOfMarkerLines ==
  (pc \notin {"start", "blocks"} /\ lines \in ListDocs) =>
    /\ pc \in {"parsed", "printed", "print_error"}
    /\ ListAsClaimed(lines, doc)

\* ------------------------------------------------------------------------
\* The indent level of the printer
\* ------------------------------------------------------------------------

\* Levels at which the visit of a node is entered
MaxLevel == 2

\* The visit method of the node n entered at level l (a ListItem is visited
\* by _visit_list_item, with the prefix of an unordered list)
VisitOf(n, l) ==
  IF n.type = "ListItem" THEN _visit_list_item(n, "- ", l) ELSE _visit(n, l)

\* Every line that the visit r has appended is the argument of its _add_line
\* call preceded by two spaces per level at the call, or is empty when the
\* argument is blank
IndentedByLevel(r) ==
  /\ Len(r.out) = Len(r.adds)
  /\ \A i \in 1..Len(r.adds) :
       IF strip(r.adds[i].line) = "" THEN r.out[i] = ""
       ELSE /\ Len(r.out[i]) = 2 * r.adds[i].level + Len(r.adds[i].line)
            /\ Sub(r.out[i], 1, 2 * r.adds[i].level)
                 = Spaces(2 * r.adds[i].level)
            /\ From(r.out[i], 2 * r.adds[i].level + 1) = r.adds[i].line

\* The visit r, entered at level l, never took the level below l, indented
\* every line by the level, and left the level at l if it returned
VisitBalanced(r, l) ==
  /\ \A i \in 1..Len(r.levels) : r.levels[i] >= l
  /\ IndentedByLevel(r)
  /\ r.status = "ok" => r.lvl = l

\* print has returned what the visit r of the Document makes, at level 0
PrintedFrom(r) ==
  pc = "printed" =>
    /\ r.status = "ok"
    /\ r.lvl = 0
    /\ printed.text = rstrip(join(r.out))

C29_TakenPathsBuilt ==
  \A p \in WatchedPaths : (p \in owed) ~> (p \notin owed \/ closing # "idle")

\* C30: once shutdown has returned and the processor has taken the shutdown
\* signal and stopped, no rebuild task is running or waiting to run.
C30_NoRebuildAfterShutdown ==
  (closing = "returned" /\ processor = "stopped")
    => \A t \in 1..Len(tasks) : Finished(tasks, t)

====
